---- MODULE Spec2Model ----
(***************************************************************************)
(* A model of the polygraph audio-graph library: the Graph of lib.rs with  *)
(* its cycle-checked edge insertion, and the Scheduler of scheduler.rs     *)
(* (sink traversal, buffer allocation, sum-task synthesis).                *)
(*                                                                         *)
(* Hash maps are functions whose domain is the key set, hash sets are      *)
(* sets.  Where the code iterates over a hash map or a hash set and the    *)
(* iteration order can change the result, the model takes every order.     *)
(***************************************************************************)
EXTENDS Integers, Sequences, FiniteSets, TLC

VARIABLES
    nodes,          \* Graph::nodes : NodeId -> Node
    ret,            \* the last call made on the graph and what it returned
    sinks,          \* the ids add_sink_node was called with so far
    order,          \* Scheduler::order
    intermediate,   \* Scheduler::intermediate : NodeId -> UsedNode
    schedule,       \* the GraphSchedule returned by compile, or NoSchedule
    exec,           \* the AudioGraphProcessor, its caller's buffers and its last call
    frames,         \* a nest of BufferHandles and the last lookup made on it
    allocator,      \* a BufferAllocator, the claims on its buffers and its last call
    io,             \* an AudioGraphIO and the last call made on it
    voices,         \* a StackVoiceManager, the events of its last flush and their use
    grid,           \* the slot-grid VoiceManager and its last call
    dense,          \* the VoiceManager of a PolyProcessor and the clusters it ran
    ring            \* a FixedDelayBuffer, its sample-by-sample twin and the stream

\* the variables of the components that have a specification of their own
others == <<io, voices, grid, dense, ring>>

vars ==
    <<nodes, ret, sinks, order, intermediate, schedule, exec, frames, allocator,
      others>>

----------------------------------------------------------------------------
(* Bounds *)

\* node ids are 1..NumNodes
NumNodes == 3
\* input port ids of a node are 1..NumIns
NumIns == 2
\* output port ids of a node are 1..NumOuts
NumOuts == 2
\* output latencies are 0..MaxLat
MaxLat == 2
\* the graphs handed to the scheduler are built with at most MaxEdges
\* try_insert_edge_acyclic calls
MaxEdges == 4
\* the graph-editing specification uses the input ids 1..EditIns, the output
\* ids 1..EditOuts and the latencies 0..EditLat
EditIns == 1
EditOuts == 1
EditLat == 1
\* a buffer holds BlockLen samples
BlockLen == 4
\* a voice mask has NumLanes lanes
NumLanes == 2
\* the executor's roster has the processor slots 0..NumProcs - 1
NumProcs == 3
\* the schedules handed to replace_schedule hold at most MaxTasks tasks
MaxTasks == 3
\* process is called at most MaxCalls times
MaxCalls == 2
\* BufferHandles are nested at most MaxDepth deep
MaxDepth == 3
\* the pool of a frame of the nest holds PoolLen buffers
PoolLen == 1
\* at most MaxWrites writes are made through a Buffers view
MaxWrites == 1
\* the allocator specification has at most MaxBufs buffers, at most MaxClaims
\* live claims on a buffer and at most MaxFinds find_free_buffer calls
MaxBufs == 3
MaxClaims == 2
MaxFinds == 5

NodeIds == 1..NumNodes
InIds == 1..NumIns
OutIds == 1..NumOuts

----------------------------------------------------------------------------
(* Hash maps *)

EmptyMap == [k \in {} |-> 0]

\* HashMap::insert
Put(m, k, v) == [x \in (DOMAIN m) \cup {k} |-> IF x = k THEN v ELSE m[x]]

\* HashMap::remove
Del(m, k) == [x \in (DOMAIN m) \ {k} |-> m[x]]

----------------------------------------------------------------------------
(* lib.rs : Port, Node, Graph *)

\* Port::insert_connection : the new port and whether the connection is new
insert_connection(port, node_index, port_index) ==
    LET old == IF node_index \in DOMAIN port THEN port[node_index] ELSE {}
    IN  [port |-> Put(port, node_index, old \cup {port_index}),
         new  |-> port_index \notin old]

\* Port::remove_port : the new port and whether the connection was there; the
\* entry of a node whose set of outputs becomes empty is removed
remove_port(port, node_index, port_index) ==
    IF node_index \in DOMAIN port
    THEN LET ports == port[node_index] \ {port_index}
         IN  [port |-> IF ports = {} THEN Del(port, node_index)
                       ELSE Put(port, node_index, ports),
              tmp  |-> port_index \in port[node_index]]
    ELSE [port |-> port, tmp |-> FALSE]

\* Node::default
DefaultNode == [out_lats |-> EmptyMap, inputs |-> EmptyMap]

\* Node::remove_input
remove_input(node, id) == [node EXCEPT !.inputs = Del(@, id)]

\* Node::remove_output
remove_output(node, id) == [node EXCEPT !.out_lats = Del(@, id)]

\* Node::add_input
add_input(node, id) == [node EXCEPT !.inputs = Put(@, id, EmptyMap)]

\* Node::add_output_with_latency
add_output_with_latency(node, id, latency) ==
    [node EXCEPT !.out_lats = Put(@, id, latency)]

\* Node::add_output
add_output(node, id) == add_output_with_latency(node, id, 0)

\* Graph::can_insert_edge
can_insert_edge(g, from, to) ==
    /\ to[1] \in DOMAIN g
    /\ to[2] \in DOMAIN g[to[1]].inputs
    /\ from[1] \in DOMAIN g
    /\ from[2] \in DOMAIN g[from[1]].out_lats

\* a mutant of is_connected: only the direct producers of `from` are looked at
is_connected_shallow(g, from, to) ==
    \/ from = to
    \/ \E i \in DOMAIN g[from].inputs : to \in DOMAIN g[from].inputs[i]

\* a mutant of is_connected: the search also follows the edges forwards
is_connected_either_way(g, from, to) ==
    LET RECURSIVE Up(_, _)
        Up(a, b) ==
            \/ a = b
            \/ \E i \in DOMAIN g[a].inputs :
                  \E n \in DOMAIN g[a].inputs[i] : Up(n, b)
    IN  Up(from, to) \/ (to \in DOMAIN g /\ Up(to, from))

\* Graph::is_connected : the depth-first search from `from` through the input
\* ports, without a visited set.  get_node(from).unwrap() cannot fail on the
\* graphs of this model: Graph has no operation that removes a node.
RECURSIVE is_connected(_, _, _)
is_connected(g, from, to) ==
    \/ from = to
    \/ \E i \in DOMAIN g[from].inputs :
          \E n \in DOMAIN g[from].inputs[i] : is_connected(g, n, to)

\* A recursive search that is more than StackLimit calls deep has a node
\* twice on its call stack.  The graph does not change during the search and
\* the iteration order of an unchanged hash map is fixed, so the inner call
\* repeats the outer one: the search never returns (the stack overflows).
StackLimit == NumNodes

\* Graph::is_connected on any graph, cyclic ones included: the outcomes of
\* the call, one or more according to the order in which the connections
\* are iterated.  "true" and "false" are the values returned; "panic" is
\* get_node(from).unwrap() on a node that does not exist; "overflow" is a
\* search that never returns.  The loop returns at the first connection
\* whose search gives true, and does not return if one before it does not.
RECURSIVE is_connected_runs(_, _, _, _)
is_connected_runs(g, from, to, depth) ==
    IF from = to THEN {"true"}
    ELSE IF from \notin DOMAIN g THEN {"panic"}
    ELSE IF depth > StackLimit THEN {"overflow"}
    ELSE LET sources == UNION { DOMAIN g[from].inputs[i] :
                                  i \in DOMAIN g[from].inputs }
             outs == [n \in sources |-> is_connected_runs(g, n, to, depth + 1)]
         IN  { o \in {"true", "panic", "overflow"} :
                 \E n \in sources : o \in outs[n] }
             \cup { o \in {"false"} : \A n \in sources : o \in outs[n] }

\* Graph::try_insert_edge_acyclic on any graph: the graphs and results the
\* call can leave; a search that panics or never returns leaves the graph
\* as it was
try_insert_edge_acyclic_runs(g, from, to) ==
    IF ~can_insert_edge(g, from, to)
    THEN {[graph |-> g, res |-> "ErrFalse"]}
    ELSE { IF o = "true" THEN [graph |-> g, res |-> "ErrTrue"]
           ELSE IF o = "panic" THEN [graph |-> g, res |-> "Panic"]
           ELSE IF o = "overflow" THEN [graph |-> g, res |-> "Overflow"]
           ELSE LET ins == insert_connection(g[to[1]].inputs[to[2]],
                                             from[1], from[2])
                IN  [graph |-> [g EXCEPT ![to[1]].inputs[to[2]] = ins.port],
                     res   |-> IF ins.new THEN "OkTrue" ELSE "OkFalse"] :
           o \in is_connected_runs(g, from[1], to[1], 1) }

\* a mutant of can_insert_edge_acyclic: the cycle search comes first, and
\* is_connected panics on a source node that does not exist
can_insert_edge_acyclic_cycle_first(g, from, to) ==
    IF from[1] \notin DOMAIN g THEN "Panic"
    ELSE IF is_connected(g, from[1], to[1]) THEN "ErrTrue"
    ELSE IF can_insert_edge(g, from, to) THEN "Ok"
    ELSE "ErrFalse"

\* Graph::can_insert_edge_acyclic : "Ok", Err(true) or Err(false)
can_insert_edge_acyclic(g, from, to) ==
    IF can_insert_edge(g, from, to)
    THEN IF is_connected(g, from[1], to[1]) THEN "ErrTrue" ELSE "Ok"
    ELSE "ErrFalse"

\* a mutant of try_insert_edge_acyclic: the return value of insert_connection
\* is dropped and every accepted insertion reports a new edge
try_insert_edge_acyclic_always_new(g, from, to) ==
    LET can == can_insert_edge_acyclic(g, from, to)
    IN  IF can = "Ok"
        THEN LET ins == insert_connection(g[to[1]].inputs[to[2]], from[1], from[2])
             IN  [graph |-> [g EXCEPT ![to[1]].inputs[to[2]] = ins.port],
                  res   |-> "OkTrue"]
        ELSE [graph |-> g, res |-> can]

\* Graph::try_insert_edge_acyclic : the graph after the call and the result
try_insert_edge_acyclic(g, from, to) ==
    LET can == can_insert_edge_acyclic(g, from, to)
    IN  IF can = "Ok"
        THEN LET ins == insert_connection(g[to[1]].inputs[to[2]], from[1], from[2])
             IN  [graph |-> [g EXCEPT ![to[1]].inputs[to[2]] = ins.port],
                  res   |-> IF ins.new THEN "OkTrue" ELSE "OkFalse"]
        ELSE [graph |-> g, res |-> can]

\* Graph::insert_node
insert_node(g, id, node) == Put(g, id, node)

----------------------------------------------------------------------------
(* scheduler.rs : Scheduler::add_sink_node *)

\* the greatest element of a non-empty set of integers
MaxOf(S) == CHOOSE x \in S : \A y \in S : y <= x

\* the least element of a non-empty set of integers
MinOf(S) == CHOOSE x \in S : \A y \in S : x <= y

\* a mutant of source_port_total_lat: the max input latency of the source
\* node is left out
source_port_total_lat_port_only(source_node_input_lat, source_port_lat) ==
    source_port_lat

\* the latency at an output: that of the node's inputs plus the output's own
source_port_total_lat(source_node_input_lat, source_port_lat) ==
    source_node_input_lat + source_port_lat

\* a mutant of record_used_outputs: the connections that an output already
\* has are forgotten when a new consumer is recorded
record_used_outputs_replace(g, st, index, dest_port_id, source_node_id, max_input_lat) ==
    LET source_port_ids == g[index].inputs[dest_port_id][source_node_id]
        source == st.intermediate[source_node_id]
        old == source.used_outputs
        used == [o \in (DOMAIN old) \cup source_port_ids |->
                    IF o \in source_port_ids
                    THEN insert_connection(EmptyMap, index, dest_port_id).port
                    ELSE old[o]]
        lats == { source_port_total_lat(source.max_delay,
                                        g[source_node_id].out_lats[o]) :
                    o \in source_port_ids }
    IN  [st  |-> [st EXCEPT !.intermediate[source_node_id].used_outputs = used],
         max |-> MaxOf(lats \cup {max_input_lat})]

\* The body of the loop over source_port_ids: the output source_port_id of
\* source_node_id is recorded as used by (index, dest_port_id), for every
\* output of source_port_ids, and the running maximum is raised.  The map
\* that the source calls node_io in this loop is the map `intermediate`
\* that the end of the function and compile_map_delays read.
record_used_outputs(g, st, index, dest_port_id, source_node_id, max_input_lat) ==
    LET source_port_ids == g[index].inputs[dest_port_id][source_node_id]
        source == st.intermediate[source_node_id]
        old == source.used_outputs
        used == [o \in (DOMAIN old) \cup source_port_ids |->
                    IF o \in source_port_ids
                    THEN insert_connection(
                             IF o \in DOMAIN old THEN old[o] ELSE EmptyMap,
                             index, dest_port_id).port
                    ELSE old[o]]
        lats == { source_port_total_lat(source.max_delay,
                                        g[source_node_id].out_lats[o]) :
                    o \in source_port_ids }
    IN  [st  |-> [st EXCEPT !.intermediate[source_node_id].used_outputs = used],
         max |-> MaxOf(lats \cup {max_input_lat})]

RECURSIVE add_sink_node(_, _, _)
RECURSIVE visit_input_ports(_, _, _, _, _)
RECURSIVE visit_connections(_, _, _, _, _, _)

\* a mutant of add_sink_node: the early return for a node that is already
\* scheduled is missing
add_sink_node_no_return(g, st, index) ==
    { [order |-> Append(r.st.order, index),
       intermediate |-> Put(r.st.intermediate, index,
                            [max_delay |-> r.max, used_outputs |-> EmptyMap])] :
        r \in visit_input_ports(g, st, index, DOMAIN g[index].inputs, 0) }

\* a mutant of add_sink_node: the node is appended to the order before its
\* producers are visited
add_sink_node_push_first(g, st, index) ==
    IF index \in DOMAIN st.intermediate \/ \E k \in 1..Len(st.order) : st.order[k] = index
    THEN {st}
    ELSE { [order |-> r.st.order,
            intermediate |-> Put(r.st.intermediate, index,
                                 [max_delay |-> r.max, used_outputs |-> EmptyMap])] :
            r \in visit_input_ports(g, [st EXCEPT !.order = Append(@, index)],
                                    index, DOMAIN g[index].inputs, 0) }

\* Scheduler::add_sink_node on the scheduler state st = [order, intermediate]:
\* the set of the states it can leave, one for each order in which the input
\* ports and their connections can be iterated.
add_sink_node(g, st, index) ==
    IF index \in DOMAIN st.intermediate
    THEN {st}
    ELSE { [order |-> Append(r.st.order, index),
            intermediate |-> Put(r.st.intermediate, index,
                                 [max_delay |-> r.max, used_outputs |-> EmptyMap])] :
            r \in visit_input_ports(g, st, index, DOMAIN g[index].inputs, 0) }

\* the loop over input_ports() of add_sink_node, with `ports` still to visit
visit_input_ports(g, st, index, ports, max_input_lat) ==
    IF ports = {}
    THEN {[st |-> st, max |-> max_input_lat]}
    ELSE UNION { UNION { visit_input_ports(g, r.st, index, ports \ {p}, r.max) :
                            r \in visit_connections(g, st, index, p,
                                     DOMAIN g[index].inputs[p], max_input_lat) } :
                    p \in ports }

\* the loop over dest_port.connections() of add_sink_node, with the source
\* nodes `sources` still to visit
visit_connections(g, st, index, dest_port_id, sources, max_input_lat) ==
    IF sources = {}
    THEN {[st |-> st, max |-> max_input_lat]}
    ELSE UNION { UNION { LET r == record_used_outputs(g, s1, index, dest_port_id,
                                                      n, max_input_lat)
                         IN  visit_connections(g, r.st, index, dest_port_id,
                                               sources \ {n}, r.max) :
                            s1 \in add_sink_node(g, st, n) } :
                    n \in sources }

\* Scheduler::add_sink_node on any graph, cyclic ones included: the set of
\* [st, out] the call can leave, where out is "returns", "panic" (get_node
\* of a node that does not exist, or the latency of an output that does not
\* exist) or "overflow" (the recursion never returns).  A node enters
\* `intermediate` after its producers were visited, so that the early return
\* does not stop a recursion that comes back to a node on the call stack.
RECURSIVE add_sink_node_runs(_, _, _, _)
RECURSIVE visit_sources_runs(_, _, _, _, _, _, _)
add_sink_node_runs(g, st, index, depth) ==
    IF index \in DOMAIN st.intermediate THEN {[st |-> st, out |-> "returns"]}
    ELSE IF index \notin DOMAIN g THEN {[st |-> st, out |-> "panic"]}
    ELSE IF depth > StackLimit THEN {[st |-> st, out |-> "overflow"]}
    ELSE { IF r.out = "returns"
           THEN [st  |-> [order |-> Append(r.st.order, index),
                          intermediate |->
                              Put(r.st.intermediate, index,
                                  [max_delay |-> r.max, used_outputs |-> EmptyMap])],
                 out |-> "returns"]
           ELSE [st |-> r.st, out |-> r.out] :
           r \in visit_sources_runs(g, st, index,
                     { pn \in (DOMAIN g[index].inputs) \X NodeIds :
                         pn[2] \in DOMAIN g[index].inputs[pn[1]] },
                     0, 0, depth) }

\* the two loops of add_sink_node over the input ports and their connections,
\* with the <<port, source node>> pairs `todo` still to visit and the port
\* `cur` whose connections are being visited
visit_sources_runs(g, st, index, todo, cur, max_input_lat, depth) ==
    IF todo = {}
    THEN {[st |-> st, max |-> max_input_lat, out |-> "returns"]}
    ELSE LET same_port == { t \in todo : t[1] = cur }
             next == IF same_port # {} THEN same_port ELSE todo
         IN  UNION { UNION {
                 IF s1.out # "returns"
                 THEN {[st |-> s1.st, max |-> max_input_lat, out |-> s1.out]}
                 ELSE IF ~(g[index].inputs[t[1]][t[2]] \subseteq DOMAIN g[t[2]].out_lats)
                 THEN {[st |-> s1.st, max |-> max_input_lat, out |-> "panic"]}
                 ELSE LET r == record_used_outputs(g, s1.st, index, t[1], t[2],
                                                   max_input_lat)
                      IN  visit_sources_runs(g, r.st, index, todo \ {t}, t[1],
                                             r.max, depth) :
                 s1 \in add_sink_node_runs(g, st, t[2], depth + 1) } :
                 t \in next }

----------------------------------------------------------------------------
(* scheduler.rs : BufferAllocator *)

\* BufferAllocator::ids is the sequence of the strong counts of its Rc<()>:
\* ids[b + 1] is 1 plus the number of live clones of the handle of buffer b.

\* Rc::clone of the handle of buffer b
rc_clone(ids, b) == [ids EXCEPT ![b + 1] = @ + 1]

\* drop of a clone of the handle of buffer b
rc_drop(ids, b) == [ids EXCEPT ![b + 1] = @ - 1]

\* a mutant of find_free_buffer: a buffer with one live claim counts as free
find_free_buffer_one_claim(ids) ==
    LET free == { b \in 0..(Len(ids) - 1) : ids[b + 1] <= 2 }
        id == IF free = {} THEN Len(ids) ELSE MinOf(free)
    IN  [id |-> id, ids |-> IF id = Len(ids) THEN Append(ids, 1) ELSE ids]

\* a mutant of find_free_buffer: the buffer found last, not first
find_free_buffer_last(ids) ==
    LET free == { b \in 0..(Len(ids) - 1) : ids[b + 1] = 1 }
        id == IF free = {} THEN Len(ids) ELSE MaxOf(free)
    IN  [id |-> id, ids |-> IF id = Len(ids) THEN Append(ids, 1) ELSE ids]

\* BufferAllocator::find_free_buffer : the id found and the allocator after
find_free_buffer(ids) ==
    LET free == { b \in 0..(Len(ids) - 1) : ids[b + 1] = 1 }
        id == IF free = {} THEN Len(ids) ELSE MinOf(free)
    IN  [id |-> id, ids |-> IF id = Len(ids) THEN Append(ids, 1) ELSE ids]

\* BufferAllocator::len
allocator_len(ids) == Len(ids)

----------------------------------------------------------------------------
(* scheduler.rs : Scheduler::compile_map_delays *)

\* InputSource::GraphNode
GraphNode(delay, node_id, port_id) ==
    [kind |-> "GraphNode", delay |-> delay, node_id |-> node_id,
     port_id |-> port_id, index |-> 0]

\* InputSource::SumNode (index counts from 0, as in the source)
SumNode(index) ==
    [kind |-> "SumNode", delay |-> 0, node_id |-> 0, port_id |-> 0,
     index |-> index]

\* Option::<InputSource>::None
NoSource ==
    [kind |-> "None", delay |-> 0, node_id |-> 0, port_id |-> 0, index |-> 0]

\* InputSource::delay
source_delay(source) == IF source.kind = "GraphNode" THEN source.delay ELSE 0

\* Option::<NodeOutput>::None
NoOutput == [some |-> FALSE, buf_id |-> 0, max_delay |-> 0]

\* Some(NodeOutput { buf_id, max_delay })
SomeOutput(buf_id, max_delay) ==
    [some |-> TRUE, buf_id |-> buf_id, max_delay |-> max_delay]

TaskNode(n) == [kind |-> "Node", id |-> n]
TaskSum(index) == [kind |-> "Sum", id |-> index]

\* the state of compile_map_delays before the loop over `order`
CompileStart ==
    [ids |-> <<>>, claims |-> EmptyMap, node_io |-> EmptyMap,
     sum_nodes |-> <<>>, tasks |-> <<>>]

\* a mutant of is_claimed: no port is ever found claimed
is_claimed_never(claims, dest_node_id, dest_port_id) == FALSE

\* claims.get(dest_node_id).is_some_and(|map| map.contains_key(dest_port_id))
is_claimed(claims, dest_node_id, dest_port_id) ==
    /\ dest_node_id \in DOMAIN claims
    /\ dest_port_id \in DOMAIN claims[dest_node_id]

\* a mutant of edge_delay: the latency of the source is not subtracted
edge_delay_dest_only(dest_max_delay, source_total_lat) == dest_max_delay

\* the delay of an edge: intermediate[dest_node_id].max_delay - source_total_lat
edge_delay(dest_max_delay, source_total_lat) == dest_max_delay - source_total_lat

\* a mutant of assign_output: max_delay is the least delay of the consumers
assign_output_min_delay(g, inter, node_id, c, source_port_id) ==
    LET connections == inter[node_id].used_outputs[source_port_id]
        alloc == find_free_buffer(c.ids)
        buf_id == alloc.id
        source_total_lat == inter[node_id].max_delay
                                + g[node_id].out_lats[source_port_id]
        delay(d) == edge_delay(inter[d].max_delay, source_total_lat)
        pairs == { <<d, p>> \in (DOMAIN connections) \X InIds : p \in connections[d] }
        fresh == { dp \in pairs : ~is_claimed(c.claims, dp[1], dp[2]) }
        old_ports(d) == IF d \in DOMAIN c.claims THEN DOMAIN c.claims[d] ELSE {}
        new_ports(d) == { p \in InIds : <<d, p>> \in fresh }
        claims == [d \in (DOMAIN c.claims) \cup { dp[1] : dp \in fresh } |->
                     [p \in old_ports(d) \cup new_ports(d) |->
                        IF p \in old_ports(d)
                        THEN c.claims[d][p]
                        ELSE [handle |-> buf_id,
                              source |-> GraphNode(delay(d), node_id, source_port_id)]]]
        repeats == [d \in DOMAIN connections |->
                      [p \in { q \in connections[d] : is_claimed(c.claims, d, q) } |->
                         [handle |-> buf_id, delay |-> delay(d)]]]
        RECURSIVE Clones(_, _)
        Clones(ids, n) == IF n = 0 THEN ids ELSE Clones(rc_clone(ids, buf_id), n - 1)
    IN  [c       |-> [c EXCEPT !.ids = Clones(alloc.ids, Cardinality(pairs)),
                               !.claims = claims],
         output  |-> SomeOutput(buf_id,
                                MinOf({ delay(d) : d \in DOMAIN connections })),
         repeats |-> repeats]

\* One iteration of the loop over node_output_lats for an output that is
\* used: a buffer is allocated, and every (dest node, dest port) the output
\* feeds either receives a claim or, when it holds one already, goes to the
\* repeats with a clone of the handle.  The order in which the consumers are
\* iterated does not change what this leaves: they are distinct ports.
assign_output(g, inter, node_id, c, source_port_id) ==
    LET connections == inter[node_id].used_outputs[source_port_id]
        alloc == find_free_buffer(c.ids)
        buf_id == alloc.id
        source_total_lat == inter[node_id].max_delay
                                + g[node_id].out_lats[source_port_id]
        delay(d) == edge_delay(inter[d].max_delay, source_total_lat)
        pairs == { <<d, p>> \in (DOMAIN connections) \X InIds : p \in connections[d] }
        fresh == { dp \in pairs : ~is_claimed(c.claims, dp[1], dp[2]) }
        old_ports(d) == IF d \in DOMAIN c.claims THEN DOMAIN c.claims[d] ELSE {}
        new_ports(d) == { p \in InIds : <<d, p>> \in fresh }
        claims == [d \in (DOMAIN c.claims) \cup { dp[1] : dp \in fresh } |->
                     [p \in old_ports(d) \cup new_ports(d) |->
                        IF p \in old_ports(d)
                        THEN c.claims[d][p]
                        ELSE [handle |-> buf_id,
                              source |-> GraphNode(delay(d), node_id, source_port_id)]]]
        repeats == [d \in DOMAIN connections |->
                      [p \in { q \in connections[d] : is_claimed(c.claims, d, q) } |->
                         [handle |-> buf_id, delay |-> delay(d)]]]
        RECURSIVE Clones(_, _)
        Clones(ids, n) == IF n = 0 THEN ids ELSE Clones(rc_clone(ids, buf_id), n - 1)
    IN  [c       |-> [c EXCEPT !.ids = Clones(alloc.ids, Cardinality(pairs)),
                               !.claims = claims],
         output  |-> SomeOutput(buf_id,
                                MaxOf({0} \cup { delay(d) : d \in DOMAIN connections })),
         repeats |-> repeats]

\* a mutant of assign_outputs: an output that is not used gets no entry
RECURSIVE assign_outputs_skip_unused(_, _, _, _, _, _, _)
assign_outputs_skip_unused(g, inter, node_id, c, outputs, repeat_assignees, todo) ==
    IF todo = {}
    THEN {[c |-> c, outputs |-> outputs, repeat_assignees |-> repeat_assignees]}
    ELSE UNION {
            IF o \notin DOMAIN inter[node_id].used_outputs
            THEN assign_outputs_skip_unused(g, inter, node_id, c, outputs,
                                            repeat_assignees, todo \ {o})
            ELSE LET a == assign_output(g, inter, node_id, c, o)
                 IN  assign_outputs_skip_unused(g, inter, node_id, a.c,
                                    Put(outputs, o, a.output),
                                    Put(repeat_assignees, o, a.repeats), todo \ {o}) :
            o \in todo }

\* The loop over node_output_lats, with the outputs `todo` still to visit, in
\* every order: the set of [c, outputs, repeat_assignees] it can leave.
RECURSIVE assign_outputs(_, _, _, _, _, _, _)
assign_outputs(g, inter, node_id, c, outputs, repeat_assignees, todo) ==
    IF todo = {}
    THEN {[c |-> c, outputs |-> outputs, repeat_assignees |-> repeat_assignees]}
    ELSE UNION {
            IF o \notin DOMAIN inter[node_id].used_outputs
            THEN assign_outputs(g, inter, node_id, c, Put(outputs, o, NoOutput),
                                repeat_assignees, todo \ {o})
            ELSE LET a == assign_output(g, inter, node_id, c, o)
                 IN  assign_outputs(g, inter, node_id, a.c, Put(outputs, o, a.output),
                                    Put(repeat_assignees, o, a.repeats), todo \ {o}) :
            o \in todo }

\* a mutant of sum_repeat: both handles are kept until the sum's buffer has
\* been installed, and the claim of the sum is not counted
sum_repeat_no_claim(c, node_id, source_port_id, dest_node_id, dest_port_id, rep) ==
    LET old == c.claims[dest_node_id][dest_port_id]
        alloc == find_free_buffer(c.ids)
        index == Len(c.sum_nodes)
        ids3 == rc_drop(rc_drop(alloc.ids, rep.handle), old.handle)
    IN  [c EXCEPT
            !.ids = ids3,
            !.claims[dest_node_id][dest_port_id] =
                [handle |-> alloc.id, source |-> SumNode(index)],
            !.tasks = Append(@, TaskSum(index)),
            !.sum_nodes = Append(@,
                [summands |-> <<old.source,
                                GraphNode(rep.delay, node_id, source_port_id)>>,
                 output_buf |-> alloc.id])]

\* a mutant of sum_repeat: the new summand takes the delay of the lhs
sum_repeat_lhs_delay(c, node_id, source_port_id, dest_node_id, dest_port_id, rep) ==
    LET old == c.claims[dest_node_id][dest_port_id]
        lhs == old.source
        delay == rep.delay
        ids1 == IF delay = 0 THEN rc_drop(c.ids, rep.handle) ELSE c.ids
        ids2 == IF source_delay(lhs) = 0 THEN rc_drop(ids1, old.handle) ELSE ids1
        alloc == find_free_buffer(ids2)
        index == Len(c.sum_nodes)
        ids3 == rc_clone(alloc.ids, alloc.id)
        ids4 == IF delay = 0 THEN ids3 ELSE rc_drop(ids3, rep.handle)
        ids5 == IF source_delay(lhs) = 0 THEN ids4 ELSE rc_drop(ids4, old.handle)
    IN  [c EXCEPT
            !.ids = ids5,
            !.claims[dest_node_id][dest_port_id] =
                [handle |-> alloc.id, source |-> SumNode(index)],
            !.tasks = Append(@, TaskSum(index)),
            !.sum_nodes = Append(@,
                [summands |-> <<lhs, GraphNode(source_delay(lhs), node_id,
                                               source_port_id)>>,
                 output_buf |-> alloc.id])]

\* a mutant of sum_repeat: the source of the old claim is the second summand
sum_repeat_swapped(c, node_id, source_port_id, dest_node_id, dest_port_id, rep) ==
    LET old == c.claims[dest_node_id][dest_port_id]
        lhs == old.source
        delay == rep.delay
        ids1 == IF delay = 0 THEN rc_drop(c.ids, rep.handle) ELSE c.ids
        ids2 == IF source_delay(lhs) = 0 THEN rc_drop(ids1, old.handle) ELSE ids1
        alloc == find_free_buffer(ids2)
        index == Len(c.sum_nodes)
        ids3 == rc_clone(alloc.ids, alloc.id)
        ids4 == IF delay = 0 THEN ids3 ELSE rc_drop(ids3, rep.handle)
        ids5 == IF source_delay(lhs) = 0 THEN ids4 ELSE rc_drop(ids4, old.handle)
    IN  [c EXCEPT
            !.ids = ids5,
            !.claims[dest_node_id][dest_port_id] =
                [handle |-> alloc.id, source |-> SumNode(index)],
            !.tasks = Append(@, TaskSum(index)),
            !.sum_nodes = Append(@,
                [summands |-> <<GraphNode(delay, node_id, source_port_id), lhs>>,
                 output_buf |-> alloc.id])]

\* a mutant of sum_repeat: both handles are dropped before the buffer of the
\* sum is allocated, whatever the delays
sum_repeat_drop_both(c, node_id, source_port_id, dest_node_id, dest_port_id, rep) ==
    LET old == c.claims[dest_node_id][dest_port_id]
        lhs == old.source
        ids2 == rc_drop(rc_drop(c.ids, rep.handle), old.handle)
        alloc == find_free_buffer(ids2)
        index == Len(c.sum_nodes)
    IN  [c EXCEPT
            !.ids = rc_clone(alloc.ids, alloc.id),
            !.claims[dest_node_id][dest_port_id] =
                [handle |-> alloc.id, source |-> SumNode(index)],
            !.tasks = Append(@, TaskSum(index)),
            !.sum_nodes = Append(@,
                [summands |-> <<lhs, GraphNode(rep.delay, node_id, source_port_id)>>,
                 output_buf |-> alloc.id])]

\* The body of the innermost loop of "handle repeat assignments": the claim
\* held by (dest_node_id, dest_port_id) is replaced by the claim of a new sum
\* of its source and of the output source_port_id of node_id.
sum_repeat(c, node_id, source_port_id, dest_node_id, dest_port_id, rep) ==
    LET old == c.claims[dest_node_id][dest_port_id]
        this_old_handle == old.handle
        lhs == old.source
        other_old_handle == rep.handle
        delay == rep.delay
        \* if delay == 0 { drop(other_old_handle) }
        ids1 == IF delay = 0 THEN rc_drop(c.ids, other_old_handle) ELSE c.ids
        \* if lhs.delay() == 0 { drop(this_old_handle) }
        ids2 == IF source_delay(lhs) = 0 THEN rc_drop(ids1, this_old_handle) ELSE ids1
        alloc == find_free_buffer(ids2)
        output_buf == alloc.id
        index == Len(c.sum_nodes)
        ids3 == rc_clone(alloc.ids, output_buf)
        \* the handles that were not dropped early are dropped at the end of
        \* the loop body
        ids4 == IF delay = 0 THEN ids3 ELSE rc_drop(ids3, other_old_handle)
        ids5 == IF source_delay(lhs) = 0 THEN ids4 ELSE rc_drop(ids4, this_old_handle)
    IN  [c EXCEPT
            !.ids = ids5,
            !.claims[dest_node_id][dest_port_id] =
                [handle |-> output_buf, source |-> SumNode(index)],
            !.tasks = Append(@, TaskSum(index)),
            !.sum_nodes = Append(@,
                [summands |-> <<lhs, GraphNode(delay, node_id, source_port_id)>>,
                 output_buf |-> output_buf])]

\* The three nested loops of "handle repeat assignments", in every order:
\* `todo` holds the <<source port, dest node, dest port>> still to visit, and
\* `cur` the <<source port, dest node>> whose inner loops have begun (an
\* inner loop ends before the next entry of the enclosing one begins).
RECURSIVE sum_repeats(_, _, _, _, _)
sum_repeats(c, node_id, repeat_assignees, todo, cur) ==
    IF todo = {}
    THEN {c}
    ELSE LET same_dest == { t \in todo : t[1] = cur[1] /\ t[2] = cur[2] }
             same_port == { t \in todo : t[1] = cur[1] }
             next == IF same_dest # {} THEN same_dest
                     ELSE IF same_port # {} THEN same_port
                     ELSE todo
         IN  UNION { sum_repeats(
                         sum_repeat(c, node_id, t[1], t[2], t[3],
                                    repeat_assignees[t[1]][t[2]][t[3]]),
                         node_id, repeat_assignees, todo \ {t}, <<t[1], t[2]>>) :
                     t \in next }

\* a mutant of release_inputs: the claims of the node's inputs are kept
release_inputs_keep(g, c, node_id) ==
    IF node_id \in DOMAIN c.claims
    THEN LET claimed == c.claims[node_id]
             ports == DOMAIN g[node_id].inputs
         IN  [c      |-> c,
              inputs |-> [p \in ports |->
                            IF p \in DOMAIN claimed THEN claimed[p].source
                            ELSE NoSource]]
    ELSE [c |-> c, inputs |-> EmptyMap]

\* The last step of an iteration of the loop over `order`: the claims of the
\* inputs of node_id are removed, which drops their handles, and become the
\* node's input sources.  A node that has no entry in `claims` gets no input.
release_inputs(g, c, node_id) ==
    IF node_id \in DOMAIN c.claims
    THEN LET claimed == c.claims[node_id]
             ports == DOMAIN g[node_id].inputs
             RECURSIVE Drop(_, _)
             Drop(ids, todo) ==
                 IF todo = {} THEN ids
                 ELSE LET p == CHOOSE q \in todo : TRUE
                      IN  Drop(rc_drop(ids, claimed[p].handle), todo \ {p})
         IN  [c      |-> [c EXCEPT
                            !.ids = Drop(@, ports \cap DOMAIN claimed),
                            !.claims[node_id] =
                                [p \in (DOMAIN claimed) \ ports |-> claimed[p]]],
              inputs |-> [p \in ports |->
                            IF p \in DOMAIN claimed THEN claimed[p].source
                            ELSE NoSource]]
    ELSE [c |-> c, inputs |-> EmptyMap]

\* a mutant of compile_node: the Node task is pushed after the node's sums
compile_node_task_last(g, inter, c, node_id) ==
    UNION { { LET r == release_inputs(g, c3, node_id)
              IN  [r.c EXCEPT !.tasks = Append(@, TaskNode(node_id)),
                              !.node_io = Put(@, node_id,
                                   [inputs |-> r.inputs, outputs |-> a.outputs])] :
                c3 \in sum_repeats(a.c, node_id, a.repeat_assignees,
                          { <<o, d, p>> \in OutIds \X NodeIds \X InIds :
                              /\ o \in DOMAIN a.repeat_assignees
                              /\ d \in DOMAIN a.repeat_assignees[o]
                              /\ p \in DOMAIN a.repeat_assignees[o][d] },
                          <<0, 0>>) } :
            a \in assign_outputs(g, inter, node_id, c, EmptyMap, EmptyMap,
                                 DOMAIN g[node_id].out_lats) }

\* a mutant of compile_node: the claims of the node's inputs are released
\* before its outputs and its sums are allocated
compile_node_release_first(g, inter, c, node_id) ==
    LET c1 == [c EXCEPT !.tasks = Append(@, TaskNode(node_id))]
        r == release_inputs(g, c1, node_id)
    IN  UNION { { [c3 EXCEPT !.node_io = Put(@, node_id,
                                   [inputs |-> r.inputs, outputs |-> a.outputs])] :
                    c3 \in sum_repeats(a.c, node_id, a.repeat_assignees,
                              { <<o, d, p>> \in OutIds \X NodeIds \X InIds :
                                  /\ o \in DOMAIN a.repeat_assignees
                                  /\ d \in DOMAIN a.repeat_assignees[o]
                                  /\ p \in DOMAIN a.repeat_assignees[o][d] },
                              <<0, 0>>) } :
                a \in assign_outputs(g, inter, node_id, r.c, EmptyMap, EmptyMap,
                                     DOMAIN g[node_id].out_lats) }

\* One iteration of the loop over `order`: the set of the states it can leave.
compile_node(g, inter, c, node_id) ==
    LET c1 == [c EXCEPT !.tasks = Append(@, TaskNode(node_id))]
    IN  UNION { { LET r == release_inputs(g, c3, node_id)
                  IN  [r.c EXCEPT !.node_io = Put(@, node_id,
                                       [inputs |-> r.inputs, outputs |-> a.outputs])] :
                    c3 \in sum_repeats(a.c, node_id, a.repeat_assignees,
                              { <<o, d, p>> \in OutIds \X NodeIds \X InIds :
                                  /\ o \in DOMAIN a.repeat_assignees
                                  /\ d \in DOMAIN a.repeat_assignees[o]
                                  /\ p \in DOMAIN a.repeat_assignees[o][d] },
                              <<0, 0>>) } :
                a \in assign_outputs(g, inter, node_id, c1, EmptyMap, EmptyMap,
                                     DOMAIN g[node_id].out_lats) }

\* the loop over `order` from position k on, from each state of cs
RECURSIVE compile_from(_, _, _, _, _)
compile_from(g, ord, inter, cs, k) ==
    IF k > Len(ord)
    THEN cs
    ELSE compile_from(g, ord, inter,
                      UNION { compile_node(g, inter, c, ord[k]) : c \in cs }, k + 1)

\* Scheduler::compile (compile_map_delays with the identity): the set of the
\* GraphSchedules it can return
compile(g, ord, inter) ==
    { [compiled |-> TRUE, num_buffers |-> Len(c.ids), node_io |-> c.node_io,
       sum_nodes |-> c.sum_nodes, tasks |-> c.tasks] :
        c \in compile_from(g, ord, inter, {CompileStart}, 1) }

----------------------------------------------------------------------------
(* buffer.rs : BufferIndex, OutputBufferIndex, BufferNode, BufferHandle *)

\* OutputBufferIndex::Global, OutputBufferIndex::Intermediate,
\* BufferIndex::GlobalInput and the None of an index table; a BufferIndex::Output
\* is written as the OutputBufferIndex it wraps
Global(i) == [kind |-> "Global", i |-> i]
Intermediate(i) == [kind |-> "Intermediate", i |-> i]
GlobalInput(i) == [kind |-> "GlobalInput", i |-> i]
NoIndex == [kind |-> "None", i |-> 0]

\* what resolving an index gives: a buffer of the caller (where = "host") or
\* of the executor's own pool (where = "local"), None, or a panic
Found(where, i) == [where |-> where, i |-> i]
NotFound == [where |-> "None", i |-> 0]
Panics == [where |-> "Panic", i |-> 0]

\* a zeroed buffer
new_zeroed_owned_buffer(len) == [k \in 1..len |-> 0]

\* BufferHandle::get_input_shared / get_output_shared of the caller's handle,
\* on its index table `table`.  The caller's BufferNode is a top-level one:
\* it resolves Intermediate(k) in the caller's buffers, and has no parent to
\* resolve a global index with.
handle_get(ex, table, index) ==
    IF index >= Len(table) THEN NotFound
    ELSE LET maybe_buf_index == table[index + 1]
         IN  IF maybe_buf_index.kind = "None" THEN NotFound
             ELSE IF /\ maybe_buf_index.kind = "Intermediate"
                     /\ maybe_buf_index.i < Len(ex.host.buffers)
             THEN Found("host", maybe_buf_index.i)
             ELSE Panics

\* a mutant of get_output_shared: a global output is looked up in the
\* executor's own buffers
get_output_shared_local_only(ex, buf_index) ==
    IF buf_index.i < Len(ex.buffers) THEN Found("local", buf_index.i) ELSE Panics

\* BufferNode::get_output_shared (and get_output) of the frame the executor
\* makes with buffers.append(self.buffers)
get_output_shared(ex, buf_index) ==
    IF buf_index.kind = "Global"
    THEN handle_get(ex, ex.host.outputs, buf_index.i)
    ELSE IF buf_index.i < Len(ex.buffers)
    THEN Found("local", buf_index.i)
    ELSE Panics

\* BufferNode::get_input_shared (and get_input)
get_input_shared(ex, buf_index) ==
    IF buf_index.kind = "GlobalInput"
    THEN handle_get(ex, ex.host.inputs, buf_index.i)
    ELSE get_output_shared(ex, buf_index)

\* BufferHandle::get_input of the handle with_indices(inputs, outputs) makes
child_get_input(ex, inputs, index) ==
    IF index >= Len(inputs) THEN NotFound
    ELSE IF inputs[index + 1].kind = "None" THEN NotFound
    ELSE get_input_shared(ex, inputs[index + 1])

\* BufferHandle::get_output of the handle with_indices(inputs, outputs) makes
child_get_output(ex, outputs, index) ==
    IF index >= Len(outputs) THEN NotFound
    ELSE IF outputs[index + 1].kind = "None" THEN NotFound
    ELSE get_output_shared(ex, outputs[index + 1])

\* the samples of a buffer that was found
read_buf(ex, loc) ==
    IF loc.where = "host" THEN ex.host.buffers[loc.i + 1] ELSE ex.buffers[loc.i + 1]

\* the executor after the samples of a buffer that was found are set
write_buf(ex, loc, samples) ==
    IF loc.where = "host"
    THEN [ex EXCEPT !.host.buffers[loc.i + 1] = samples]
    ELSE [ex EXCEPT !.buffers[loc.i + 1] = samples]

----------------------------------------------------------------------------
(* buffer.rs : a nest of BufferHandles built with append, and Buffers views *)

\* A nest is a sequence of frames, the top-level one first.  Frame 1 is
\* BufferNode::toplevel(buffers).with_indices(inputs, outputs), and frame d
\* is  parent.append(buffers).with_indices(inputs, outputs)  where parent is
\* frame d - 1.
frame_of(inputs, outputs, buffers) ==
    [inputs |-> inputs, outputs |-> outputs, buffers |-> buffers]

\* what a lookup in a nest gives: Some slice, the buffer i of the pool of
\* frame depth; None; or a panic
SomeBuf(depth, i) == [is |-> "Some", depth |-> depth, i |-> i]
NoBuf == [is |-> "None", depth |-> 0, i |-> 0]
PanicBuf == [is |-> "Panic", depth |-> 0, i |-> 0]

RECURSIVE node_get_output(_, _, _)
RECURSIVE handle_get_output(_, _, _)
RECURSIVE node_get_input(_, _, _)
RECURSIVE handle_get_input(_, _, _)

\* BufferNode::get_output of the node of frame d: parent.unwrap() panics in
\* the top-level frame, and self.buffers[i] panics past the end of the pool
node_get_output(stack, d, buf_index) ==
    IF buf_index.kind = "Global"
    THEN IF d = 1 THEN PanicBuf
         ELSE handle_get_output(stack, d - 1, buf_index.i)
    ELSE IF buf_index.i < Len(stack[d].buffers)
    THEN SomeBuf(d, buf_index.i)
    ELSE PanicBuf

\* BufferHandle::get_output of frame d
handle_get_output(stack, d, index) ==
    IF index >= Len(stack[d].outputs) THEN NoBuf
    ELSE IF stack[d].outputs[index + 1].kind = "None" THEN NoBuf
    ELSE node_get_output(stack, d, stack[d].outputs[index + 1])

\* a mutant of node_get_input: a global input is looked up among the
\* parent's outputs
node_get_input_in_outputs(stack, d, buf_index) ==
    IF buf_index.kind = "GlobalInput"
    THEN IF d = 1 THEN PanicBuf
         ELSE handle_get_output(stack, d - 1, buf_index.i)
    ELSE node_get_output(stack, d, buf_index)

\* BufferNode::get_input of the node of frame d
node_get_input(stack, d, buf_index) ==
    IF buf_index.kind = "GlobalInput"
    THEN IF d = 1 THEN PanicBuf
         ELSE handle_get_input(stack, d - 1, buf_index.i)
    ELSE node_get_output(stack, d, buf_index)

\* BufferHandle::get_input of frame d
handle_get_input(stack, d, index) ==
    IF index >= Len(stack[d].inputs) THEN NoBuf
    ELSE IF stack[d].inputs[index + 1].kind = "None" THEN NoBuf
    ELSE node_get_input(stack, d, stack[d].inputs[index + 1])

\* the samples of the buffer a lookup found
nest_buf(stack, loc) == stack[loc.depth].buffers[loc.i + 1]

\* a mutant of buffers_get: the window starts at the first sample
buffers_get_unshifted(stack, loc, start, len) ==
    IF loc.is # "Some" THEN [is |-> loc.is, samples |-> <<>>]
    ELSE IF len > Len(nest_buf(stack, loc))
    THEN [is |-> "Panic", samples |-> <<>>]
    ELSE [is |-> "Some", samples |-> SubSeq(nest_buf(stack, loc), 1, len)]

\* Buffers::get_input / get_output, on what the handle resolved the index
\* to: the slice  &buf[start..][..len], which panics when the window passes
\* the end of the buffer
buffers_get(stack, loc, start, len) ==
    IF loc.is # "Some" THEN [is |-> loc.is, samples |-> <<>>]
    ELSE IF start + len > Len(nest_buf(stack, loc))
    THEN [is |-> "Panic", samples |-> <<>>]
    ELSE [is |-> "Some",
          samples |-> SubSeq(nest_buf(stack, loc), start + 1, start + len)]

\* the nest after every sample of the slice Buffers::get_output gave is set:
\* sample j of the slice is sample start + j of the buffer
buffers_set(stack, loc, start, len, samples) ==
    [stack EXCEPT ![loc.depth].buffers[loc.i + 1] =
        [k \in 1..Len(@) |->
            IF start < k /\ k <= start + len THEN samples[k - start] ELSE @[k]]]

\* no lookup has been made
NoLookup ==
    [op |-> "none", index |-> 0, start |-> 0, len |-> 0, out |-> NoBuf,
     samples |-> <<>>]

----------------------------------------------------------------------------
(* processor.rs : Processor, AudioGraphProcessor *)

\* Mask::splat
splat(b) == [l \in 1..NumLanes |-> b]

\* a mutant of mask_and: the masks are or-ed
mask_or(a, b) == [l \in 1..NumLanes |-> a[l] \/ b[l]]

\* the &= of two masks
mask_and(a, b) == [l \in 1..NumLanes |-> a[l] /\ b[l]]

\* the samples 1, 2, ..., BlockLen
Ramp == [k \in 1..BlockLen |-> k]

\* the processors of the roster: an empty slot, a processor that writes the
\* samples 1, 2, ... to its output 0, and one that copies its input 0 to its
\* output 0; each returns its own mask
NoProcessor == [kind |-> "None", mask |-> splat(TRUE)]
SourceProcessor(mask) == [kind |-> "Source", mask |-> mask]
CopyProcessor(mask) == [kind |-> "Copy", mask |-> mask]

\* ProcessTask::Sum, CopyToMasterOutput, Process and Delay
SumTask(left_input, right_input, output) ==
    [kind |-> "Sum", left_input |-> left_input, right_input |-> right_input,
     output |-> output, index |-> 0, inputs |-> <<>>, outputs |-> <<>>]
CopyToMasterOutput(input, outputs) ==
    [kind |-> "CopyToMasterOutput", left_input |-> input, right_input |-> NoIndex,
     output |-> NoIndex, index |-> 0, inputs |-> <<>>, outputs |-> outputs]
ProcessTask(index, inputs, outputs) ==
    [kind |-> "Process", left_input |-> NoIndex, right_input |-> NoIndex,
     output |-> NoIndex, index |-> index, inputs |-> inputs, outputs |-> outputs]
DelayTask ==
    [kind |-> "Delay", left_input |-> NoIndex, right_input |-> NoIndex,
     output |-> NoIndex, index |-> 0, inputs |-> <<>>, outputs |-> <<>>]

\* Processor::process of a roster processor on the handle
\* with_indices(inputs, outputs): the executor after it, or a panic when an
\* index leaves the buffers
run_processor(ex, proc, inputs, outputs) ==
    LET out == child_get_output(ex, outputs, 0)
        inp == child_get_input(ex, inputs, 0)
    IN  IF out.where = "Panic" \/ (proc.kind = "Copy" /\ inp.where = "Panic")
        THEN [ex EXCEPT !.panicked = TRUE]
        ELSE IF proc.kind = "Source" /\ out.where # "None"
        THEN write_buf(ex, out, Ramp)
        ELSE IF proc.kind = "Copy" /\ out.where # "None" /\ inp.where # "None"
        THEN write_buf(ex, out, read_buf(ex, inp))
        ELSE ex

\* the loop of the CopyToMasterOutput arm over `outputs`, from position k on
RECURSIVE copy_to_outputs(_, _, _, _)
copy_to_outputs(ex, input, outputs, k) ==
    IF k > Len(outputs) THEN ex
    ELSE LET output == get_output_shared(ex, Global(outputs[k]))
         IN  IF output.where \in {"None", "Panic"}
             THEN [ex EXCEPT !.panicked = TRUE]
             ELSE copy_to_outputs(write_buf(ex, output, read_buf(ex, input)),
                                  input, outputs, k + 1)

\* a mutant of process_task: a Process task whose processor is missing is
\* skipped
process_task_skip_missing(ex, task) ==
    IF task.kind = "Sum"
    THEN LET l == get_input_shared(ex, task.left_input)
             r == get_input_shared(ex, task.right_input)
             output == get_output_shared(ex, task.output)
         IN  IF \E x \in {l, r, output} : x.where \in {"None", "Panic"}
             THEN [ex EXCEPT !.panicked = TRUE]
             ELSE write_buf(ex, output,
                     [k \in 1..BlockLen |-> read_buf(ex, l)[k] + read_buf(ex, r)[k]])
    ELSE IF task.kind = "CopyToMasterOutput"
    THEN LET input == get_input_shared(ex, task.left_input)
         IN  IF input.where \in {"None", "Panic"}
             THEN [ex EXCEPT !.panicked = TRUE]
             ELSE copy_to_outputs(ex, input, task.outputs, 1)
    ELSE IF task.kind = "Process"
    THEN IF task.index >= Len(ex.processors)
            \/ ex.processors[task.index + 1].kind = "None"
         THEN ex
         ELSE LET proc == ex.processors[task.index + 1]
                  after == run_processor(ex, proc, task.inputs, task.outputs)
              IN  [after EXCEPT !.mask = mask_and(@, proc.mask)]
    ELSE [ex EXCEPT !.panicked = TRUE]

\* the body of the loop of AudioGraphProcessor::process for one task
process_task(ex, task) ==
    IF task.kind = "Sum"
    THEN LET l == get_input_shared(ex, task.left_input)
             r == get_input_shared(ex, task.right_input)
             output == get_output_shared(ex, task.output)
         IN  IF \E x \in {l, r, output} : x.where \in {"None", "Panic"}
             THEN [ex EXCEPT !.panicked = TRUE]
             ELSE write_buf(ex, output,
                     [k \in 1..BlockLen |-> read_buf(ex, l)[k] + read_buf(ex, r)[k]])
    ELSE IF task.kind = "CopyToMasterOutput"
    THEN LET input == get_input_shared(ex, task.left_input)
         IN  IF input.where \in {"None", "Panic"}
             THEN [ex EXCEPT !.panicked = TRUE]
             ELSE copy_to_outputs(ex, input, task.outputs, 1)
    ELSE IF task.kind = "Process"
    THEN IF task.index >= Len(ex.processors)
            \/ ex.processors[task.index + 1].kind = "None"
         THEN [ex EXCEPT !.panicked = TRUE]
         ELSE LET proc == ex.processors[task.index + 1]
                  after == run_processor(ex, proc, task.inputs, task.outputs)
              IN  [after EXCEPT !.mask = mask_and(@, proc.mask)]
    \* ProcessTask::Delay {} => todo!()
    ELSE [ex EXCEPT !.panicked = TRUE]

\* the loop `for task in &self.schedule` from position k on; a panic ends it
RECURSIVE run_tasks(_, _)
run_tasks(ex, k) ==
    IF k > Len(ex.schedule) THEN ex
    ELSE LET after == process_task(ex, ex.schedule[k])
         IN  IF after.panicked THEN after
             ELSE run_tasks([after EXCEPT !.ran = Append(@, k)], k + 1)

\* AudioGraphProcessor::process : the executor and its caller's buffers after
\* the call, with the mask returned, the positions of the tasks that ran and
\* whether the call panicked
process(ex) ==
    run_tasks([ex EXCEPT !.mask = splat(TRUE), !.ran = <<>>, !.panicked = FALSE,
                         !.called = TRUE, !.calls = @ + 1], 1)

\* the buffers of the executor's caller and the index tables of its handle:
\* buffer 0 is the caller's input, buffer 1 the master output
HostBuffers ==
    [buffers |-> << [k \in 1..BlockLen |-> BlockLen + 1 - k],
                    new_zeroed_owned_buffer(BlockLen) >>,
     inputs  |-> << Intermediate(0) >>,
     outputs |-> << Intermediate(1) >>]

\* a schedule and a pool are the halves of a pair <<sink, GraphSchedule>>,
\* those a graph compiles to for a sink; the halves of NoPair are a schedule
\* and a pool that came from no graph
NoPair == <<0, [compiled |-> FALSE, num_buffers |-> 0, node_io |-> EmptyMap,
                sum_nodes |-> <<>>, tasks |-> <<>>]>>

\* AudioGraphProcessor::default, before any call of process; `called`,
\* `calls`, `ran`, `mask` and `panicked` record the calls of process,
\* `origin` the call that installed the schedule, and `pair` the pairs the
\* schedule and the buffers in effect are the halves of
NoExec ==
    [schedule |-> <<>>, buffers |-> <<>>, processors |-> <<>>,
     host |-> HostBuffers, mask |-> splat(TRUE), ran |-> <<>>,
     panicked |-> FALSE, called |-> FALSE, calls |-> 0, origin |-> <<"default", 0>>,
     pair |-> [schedule |-> NoPair, buffers |-> NoPair]]

\* AudioGraphProcessor::replace_schedule, with the pair the schedule is a
\* half of
replace_schedule(ex, tasks, pair) ==
    [ex EXCEPT !.schedule = tasks, !.called = FALSE,
               !.origin = <<"replace_schedule", pair[1]>>,
               !.pair.schedule = pair]

\* AudioGraphProcessor::replace_buffers, with the pair the buffers are a half
\* of
replace_buffers(ex, buffers, pair) ==
    [ex EXCEPT !.buffers = buffers, !.pair.buffers = pair]

\* AudioGraphProcessor::remove_processor
remove_processor(ex, index) ==
    IF index < Len(ex.processors)
    THEN [ex EXCEPT !.processors[index + 1] = NoProcessor]
    ELSE ex

\* no BufferHandle has been made
NoFrames == [stack |-> <<>>, res |-> NoLookup, writes |-> 0]

\* BufferAllocator::default, no call made.  `returned` holds the ids that
\* find_free_buffer has returned, `dropped` the buffers that were claimed and
\* have no live claim now, `id` what the last find_free_buffer call returned
\* and `reused` whether that buffer was in `dropped`; `num_buffers` is the
\* field of the GraphSchedule made last.
NoAllocator ==
    [ids |-> <<>>, returned |-> {}, dropped |-> {}, id |-> 0, reused |-> FALSE,
     calls |-> 0, num_buffers |-> 0]

NoIO == <<>>
NoVoices == <<>>
NoGrid == <<>>
NoDense == <<>>
NoRing == <<>>

\* the other components before anything is done with them
OthersIdle ==
    /\ io = NoIO
    /\ voices = NoVoices
    /\ grid = NoGrid
    /\ dense = NoDense
    /\ ring = NoRing

----------------------------------------------------------------------------
(* The graph-editing specification: the public operations of Graph and Node *)

EditInIds == 1..EditIns
EditOutIds == 1..EditOuts

NoCall == [op |-> "none", from |-> <<0, 0>>, to |-> <<0, 0>>, res |-> "none"]

\* no schedule has been compiled (the fields are those of GraphSchedule::default)
NoSchedule ==
    [compiled |-> FALSE, num_buffers |-> 0, node_io |-> EmptyMap,
     sum_nodes |-> <<>>, tasks |-> <<>>]

\* the nodes a caller builds with Node::default, add_input and
\* add_output_with_latency before handing them to insert_node
FreshNodes ==
    { [out_lats |-> lats, inputs |-> [i \in I |-> EmptyMap]] :
        lats \in UNION { [O -> 0..EditLat] : O \in SUBSET EditOutIds },
        I \in SUBSET EditInIds }

Init ==
    /\ nodes = EmptyMap
    /\ ret = NoCall
    /\ sinks = {}
    /\ order = <<>>
    /\ intermediate = EmptyMap
    /\ schedule = NoSchedule
    /\ exec = NoExec
    /\ frames = NoFrames
    /\ allocator = NoAllocator
    /\ OthersIdle

SchedUnchanged ==
    UNCHANGED <<sinks, order, intermediate, schedule, exec, frames, allocator, others>>

InsertNode ==
    \E id \in NodeIds, node \in FreshNodes :
        /\ nodes' = insert_node(nodes, id, node)
        /\ ret' = [NoCall EXCEPT !.op = "insert_node", !.to = <<id, 0>>]
        /\ SchedUnchanged

\* graph.get_node_mut(n).unwrap().add_input(i)
AddInput ==
    \E n \in DOMAIN nodes, i \in EditInIds :
        /\ nodes' = [nodes EXCEPT ![n] = add_input(@, i)]
        /\ ret' = [NoCall EXCEPT !.op = "add_input", !.to = <<n, i>>]
        /\ SchedUnchanged

\* graph.get_node_mut(n).unwrap().add_output(o)
AddOutput ==
    \E n \in DOMAIN nodes, o \in EditOutIds :
        /\ nodes' = [nodes EXCEPT ![n] = add_output(@, o)]
        /\ ret' = [NoCall EXCEPT !.op = "add_output", !.from = <<n, o>>]
        /\ SchedUnchanged

\* graph.get_node_mut(n).unwrap().add_output_with_latency(o, l)
AddOutputWithLatency ==
    \E n \in DOMAIN nodes, o \in EditOutIds, l \in 0..EditLat :
        /\ nodes' = [nodes EXCEPT ![n] = add_output_with_latency(@, o, l)]
        /\ ret' = [NoCall EXCEPT !.op = "add_output_with_latency", !.from = <<n, o>>]
        /\ SchedUnchanged

\* graph.get_node_mut(n).unwrap().remove_input(&i)
RemoveInput ==
    \E n \in DOMAIN nodes, i \in EditInIds :
        /\ nodes' = [nodes EXCEPT ![n] = remove_input(@, i)]
        /\ ret' = [NoCall EXCEPT !.op = "remove_input", !.to = <<n, i>>]
        /\ SchedUnchanged

\* graph.get_node_mut(n).unwrap().remove_output(&o)
RemoveOutput ==
    \E n \in DOMAIN nodes, o \in EditOutIds :
        /\ nodes' = [nodes EXCEPT ![n] = remove_output(@, o)]
        /\ ret' = [NoCall EXCEPT !.op = "remove_output", !.from = <<n, o>>]
        /\ SchedUnchanged

\* graph.get_node_mut(n).unwrap().get_port_mut(&i).unwrap()
\*     .remove_port(&from.0, &from.1)
RemovePort ==
    \E from \in NodeIds \X EditOutIds, n \in DOMAIN nodes :
        \E i \in DOMAIN nodes[n].inputs :
            LET r == remove_port(nodes[n].inputs[i], from[1], from[2])
            IN  /\ nodes' = [nodes EXCEPT ![n].inputs[i] = r.port]
                /\ ret' = [op |-> "remove_port", from |-> from, to |-> <<n, i>>,
                           res |-> IF r.tmp THEN "true" ELSE "false"]
                /\ SchedUnchanged

TryInsertEdgeAcyclic ==
    \E from \in NodeIds \X EditOutIds, to \in NodeIds \X EditInIds :
        LET r == try_insert_edge_acyclic(nodes, from, to)
        IN  /\ nodes' = r.graph
            /\ ret' = [op |-> "try_insert_edge_acyclic", from |-> from,
                       to |-> to, res |-> r.res]
            /\ SchedUnchanged

Next ==
    \/ InsertNode
    \/ AddInput
    \/ AddOutput
    \/ AddOutputWithLatency
    \/ RemoveInput
    \/ RemoveOutput
    \/ RemovePort
    \/ TryInsertEdgeAcyclic

Spec == Init /\ [][Next]_vars

----------------------------------------------------------------------------
(* The scheduling specification: a scheduler on a graph built through       *)
(* try_insert_edge_acyclic, which the scheduler borrows and so never changes *)

\* the latency of output o of node n in the graphs handed to the scheduler
SchedLat(n, o) == ((n - 1) * o) % (MaxLat + 1)

\* every node with all its ports and no edge: for each node, insert_node of
\* a Node built with add_input and add_output_with_latency
PortsOnlyGraph ==
    [n \in NodeIds |->
        [out_lats |-> [o \in OutIds |-> SchedLat(n, o)],
         inputs   |-> [i \in InIds |-> EmptyMap]]]

\* the graphs that at most k calls of try_insert_edge_acyclic build
RECURSIVE BuiltGraphs(_)
BuiltGraphs(k) ==
    IF k = 0
    THEN {PortsOnlyGraph}
    ELSE LET G == BuiltGraphs(k - 1)
         IN  G \cup { try_insert_edge_acyclic(g, from, to).graph :
                        g \in G, from \in NodeIds \X OutIds, to \in NodeIds \X InIds }

InitSched ==
    /\ nodes \in BuiltGraphs(MaxEdges)
    /\ ret = NoCall
    /\ sinks = {}
    /\ order = <<>>
    /\ intermediate = EmptyMap
    /\ schedule = NoSchedule
    /\ exec = NoExec
    /\ frames = NoFrames
    /\ allocator = NoAllocator
    /\ OthersIdle

\* scheduler.add_sink_node(s); a schedule compiled before is out of date
AddSinkNode ==
    \E s \in DOMAIN nodes :
        \E st \in add_sink_node(nodes, [order |-> order, intermediate |-> intermediate], s) :
            /\ order' = st.order
            /\ intermediate' = st.intermediate
            /\ sinks' = sinks \cup {s}
            /\ schedule' = NoSchedule
            /\ UNCHANGED <<nodes, ret, exec, frames, allocator, others>>

\* scheduler.compile()
Compile ==
    \E sch \in compile(nodes, order, intermediate) :
        /\ schedule' = sch
        /\ UNCHANGED <<nodes, ret, sinks, order, intermediate, exec, frames, allocator, others>>

NextSched ==
    \/ AddSinkNode
    \/ Compile

SpecSched == InitSched /\ [][NextSched]_vars

----------------------------------------------------------------------------
(* The executor specification: an AudioGraphProcessor with a schedule, a     *)
(* pool of buffers and a roster of processors, called by a top-level host    *)

\* The tasks the executor runs for a compiled GraphSchedule, as section 4.6
\* of the specification gives them: a Process task for Node(id), on the
\* buffers of the node's bindings, and a Sum task for Sum(k), on the buffers
\* of the two summands.  An output of a declared sink that no node reads is
\* bound to the master output of the same position.
lower(g, sch, sink_ids) ==
    LET buf(source) ==
            IF source.kind = "SumNode"
            THEN sch.sum_nodes[source.index + 1].output_buf
            ELSE sch.node_io[source.node_id].outputs[source.port_id].buf_id
        in_entry(id, i) ==
            IF sch.node_io[id].inputs[i].kind = "None" THEN NoIndex
            ELSE Intermediate(buf(sch.node_io[id].inputs[i]))
        out_entry(id, o) ==
            IF sch.node_io[id].outputs[o].some
            THEN Intermediate(sch.node_io[id].outputs[o].buf_id)
            ELSE IF id \in sink_ids THEN Global(o - 1) ELSE NoIndex
        task(t) ==
            IF t.kind = "Sum"
            THEN SumTask(Intermediate(buf(sch.sum_nodes[t.id + 1].summands[1])),
                         Intermediate(buf(sch.sum_nodes[t.id + 1].summands[2])),
                         Intermediate(sch.sum_nodes[t.id + 1].output_buf))
            ELSE ProcessTask(t.id,
                     [i \in 1..NumIns |->
                        IF i \in DOMAIN sch.node_io[t.id].inputs
                        THEN in_entry(t.id, i) ELSE NoIndex],
                     [o \in 1..NumOuts |->
                        IF o \in DOMAIN sch.node_io[t.id].outputs
                        THEN out_entry(t.id, o) ELSE NoIndex])
    IN  [k \in 1..Len(sch.tasks) |-> task(sch.tasks[k])]

\* AudioGraphProcessor::schedule_for : the schedule and the buffers are
\* replaced by those of the graph, compiled with the sink `sink`
schedule_for(ex, g, sink) ==
    { [ex EXCEPT !.schedule = lower(g, sch, {sink}),
                 !.buffers = [b \in 1..sch.num_buffers |->
                                 new_zeroed_owned_buffer(BlockLen)],
                 !.called = FALSE,
                 !.origin = <<"schedule_for", sink>>,
                 !.pair = [schedule |-> <<sink, sch>>,
                           buffers |-> <<sink, sch>>]] :
        sch \in UNION { compile(g, st.order, st.intermediate) :
                          st \in add_sink_node(g, [order |-> <<>>,
                                                   intermediate |-> EmptyMap], sink) } }

\* the graph Source.out -> Sink.in : node 1 is Source, with one output, and
\* node 2 is Sink, with one input and one output that no node reads
SingleEdgeGraph ==
    LET source == add_output_with_latency(DefaultNode, 1, MaxLat)
        sink == add_output(add_input(DefaultNode, 1), 1)
        g == insert_node(insert_node(EmptyMap, 1, source), 2, sink)
    IN  try_insert_edge_acyclic(g, <<1, 1>>, <<2, 1>>).graph

\* the graph in which both outputs of Source feed Sink.in : output 1 has no
\* latency and output 2 has the latency MaxLat, so that the edge from output 1
\* is delayed by MaxLat
FanInGraph ==
    LET source == add_output_with_latency(add_output(DefaultNode, 1), 2, MaxLat)
        sink == add_output(add_input(DefaultNode, 1), 1)
        g == insert_node(insert_node(EmptyMap, 1, source), 2, sink)
        g1 == try_insert_edge_acyclic(g, <<1, 1>>, <<2, 1>>).graph
    IN  try_insert_edge_acyclic(g1, <<1, 2>>, <<2, 1>>).graph

\* the GraphSchedules AudioGraph::compile can start from: those of a scheduler
\* of the graph with the sink `sink`
compiled_for(g, sink) ==
    UNION { compile(g, st.order, st.intermediate) :
              st \in add_sink_node(g, [order |-> <<>>,
                                       intermediate |-> EmptyMap], sink) }

\* the tasks handed to replace_schedule
TaskAlphabet ==
    { ProcessTask(1, <<>>, <<Intermediate(0)>>),
      ProcessTask(2, <<Intermediate(0)>>, <<Global(0)>>),
      ProcessTask(2, <<GlobalInput(0)>>, <<Intermediate(1)>>),
      ProcessTask(1, <<>>, <<NoIndex>>),
      ProcessTask(0, <<>>, <<>>),
      ProcessTask(NumProcs, <<>>, <<>>),
      SumTask(Intermediate(0), Intermediate(1), Intermediate(1)),
      SumTask(GlobalInput(1), Intermediate(0), Intermediate(0)),
      CopyToMasterOutput(Intermediate(1), <<0>>),
      DelayTask }

\* the schedules of at most MaxTasks tasks
Schedules == UNION { [1..n -> TaskAlphabet] : n \in 0..MaxTasks }

Masks == [1..NumLanes -> BOOLEAN]

\* the roster: slot 1 holds a Source processor, slot 2 a Copy processor, the
\* other slots are empty
Roster(m1, m2) ==
    [i \in 1..NumProcs |->
        IF i = 2 THEN SourceProcessor(m1)
        ELSE IF i = 3 THEN CopyProcessor(m2)
        ELSE NoProcessor]

\* an executor after replace_schedule, replace_buffers with two zeroed
\* buffers and pour_processors_into, on the graph of one edge or on the graph
\* with a fan-in
InitExec ==
    /\ nodes \in {SingleEdgeGraph, FanInGraph}
    /\ ret = NoCall
    /\ sinks = {}
    /\ order = <<>>
    /\ intermediate = EmptyMap
    /\ schedule = NoSchedule
    /\ frames = NoFrames
    /\ allocator = NoAllocator
    /\ OthersIdle
    /\ \E s \in Schedules, m1, m2 \in Masks :
          exec = [NoExec EXCEPT
                    !.schedule = s,
                    !.buffers = << new_zeroed_owned_buffer(BlockLen),
                                   new_zeroed_owned_buffer(BlockLen) >>,
                    !.processors = Roster(m1, m2),
                    !.origin = <<"replace_schedule", 0>>]

ExecUnchanged ==
    UNCHANGED <<nodes, ret, sinks, order, intermediate, schedule, frames, allocator, others>>

\* executor.process(buffers, cluster_idx, params); a panic ends the program
Process ==
    /\ exec.calls < MaxCalls
    /\ ~exec.panicked
    /\ exec' = process(exec)
    /\ ExecUnchanged

\* executor.schedule_for(&graph, BlockLen)
ScheduleFor ==
    /\ ~exec.panicked
    /\ \E sink \in DOMAIN nodes :
          exec' \in schedule_for(exec, nodes, sink)
    /\ ExecUnchanged

\* the pairs <<sink, GraphSchedule>> the graphs of the executor
\* specification compile to
GraphPairs ==
    [g \in {SingleEdgeGraph, FanInGraph} |->
        UNION { { <<sink, sch>> : sch \in compiled_for(g, sink) } :
                  sink \in DOMAIN g }]

\* executor.replace_schedule(schedule), with the task list the graph compiles
\* to for a sink
ReplaceSchedule ==
    /\ ~exec.panicked
    /\ \E pair \in GraphPairs[nodes] :
          exec' = replace_schedule(exec, lower(nodes, pair[2], {pair[1]}), pair)
    /\ ExecUnchanged

\* executor.replace_buffers(buffers), with the pool of the schedule the graph
\* compiles to for a sink; the pools are replaced of the executors whose
\* schedule was compiled from the graph
ReplaceBuffers ==
    /\ ~exec.panicked
    /\ exec.pair.schedule # NoPair
    /\ \E pair \in GraphPairs[nodes] :
          exec' = replace_buffers(exec,
                      [b \in 1..pair[2].num_buffers |->
                          new_zeroed_owned_buffer(BlockLen)],
                      pair)
    /\ ExecUnchanged

\* executor.remove_processor(index)
RemoveProcessor ==
    /\ ~exec.panicked
    /\ \E index \in 0..NumProcs :
          /\ exec' = remove_processor(exec, index)
    /\ ExecUnchanged

NextExec ==
    \/ Process
    \/ ScheduleFor
    \/ ReplaceSchedule
    \/ ReplaceBuffers
    \/ RemoveProcessor

SpecExec == InitExec /\ [][NextExec]_vars

----------------------------------------------------------------------------
(* The buffer specification: a host nests BufferHandles with append and      *)
(* with_indices, looks buffers up in the innermost one, and reads and writes *)
(* them through Buffers views                                               *)

\* the index tables the frames are made with; index 2 is past the end of
\* each, and Intermediate(PoolLen) is past the end of a pool
OutTables ==
    { <<Global(0), Intermediate(0)>>,
      <<Global(1), NoIndex>>,
      <<Intermediate(PoolLen), Global(0)>> }

InTables ==
    { <<GlobalInput(0), Intermediate(0)>>,
      <<GlobalInput(1), Global(0)>>,
      <<NoIndex, Global(1)>> }

\* the indices looked up
Slots == 0..2

\* the windows (start, len) of the views; the last passes the end of a buffer
Windows == { <<0, BlockLen>>, <<1, 2>>, <<BlockLen - 1, 2>> }

\* the buffers the host gives frame d: no two samples of the nest are equal
host_buffers(d) ==
    [b \in 1..PoolLen |-> [k \in 1..BlockLen |-> 100 * d + 10 * b + k]]

\* the samples written through a view of len samples
written(len) == [j \in 1..len |-> 0 - j]

InitBuf ==
    /\ nodes = EmptyMap
    /\ ret = NoCall
    /\ sinks = {}
    /\ order = <<>>
    /\ intermediate = EmptyMap
    /\ schedule = NoSchedule
    /\ exec = NoExec
    /\ frames = NoFrames
    /\ allocator = NoAllocator
    /\ OthersIdle

BufUnchanged ==
    UNCHANGED <<nodes, ret, sinks, order, intermediate, schedule, exec, allocator, others>>

\* BufferNode::toplevel(buffers).with_indices(inputs, outputs)
Toplevel ==
    /\ frames.stack = <<>>
    /\ \E inputs \in InTables, outputs \in OutTables :
          frames' = [frames EXCEPT
                        !.stack = <<frame_of(inputs, outputs, host_buffers(1))>>,
                        !.res = NoLookup]
    /\ BufUnchanged

\* handle.append(buffers).with_indices(inputs, outputs)
AppendFrame ==
    /\ frames.stack # <<>>
    /\ Len(frames.stack) < MaxDepth
    /\ \E inputs \in InTables, outputs \in OutTables :
          frames' = [frames EXCEPT
                        !.stack = Append(@, frame_of(inputs, outputs,
                                             host_buffers(Len(@) + 1))),
                        !.res = NoLookup]
    /\ BufUnchanged

\* handle.get_output(index) on the innermost handle
GetOutput ==
    /\ frames.stack # <<>>
    /\ \E index \in Slots :
          frames' = [frames EXCEPT !.res =
                        [op |-> "get_output", index |-> index, start |-> 0,
                         len |-> 0,
                         out |-> handle_get_output(frames.stack,
                                                   Len(frames.stack), index),
                         samples |-> <<>>]]
    /\ BufUnchanged

\* handle.get_input(index) on the innermost handle
GetInput ==
    /\ frames.stack # <<>>
    /\ \E index \in Slots :
          frames' = [frames EXCEPT !.res =
                        [op |-> "get_input", index |-> index, start |-> 0,
                         len |-> 0,
                         out |-> handle_get_input(frames.stack,
                                                  Len(frames.stack), index),
                         samples |-> <<>>]]
    /\ BufUnchanged

\* handle.with_buffer_pos(start, len).get_input(index), and the slice is read
ViewInput ==
    /\ frames.stack # <<>>
    /\ \E index \in Slots, w \in Windows :
          LET loc == handle_get_input(frames.stack, Len(frames.stack), index)
              view == buffers_get(frames.stack, loc, w[1], w[2])
          IN  frames' = [frames EXCEPT !.res =
                            [op |-> "view_input", index |-> index,
                             start |-> w[1], len |-> w[2],
                             out |-> IF view.is = "Panic" THEN PanicBuf ELSE loc,
                             samples |-> view.samples]]
    /\ BufUnchanged

\* handle.with_buffer_pos(start, len).get_output(index), and the slice is read
ViewOutput ==
    /\ frames.stack # <<>>
    /\ \E index \in Slots, w \in Windows :
          LET loc == handle_get_output(frames.stack, Len(frames.stack), index)
              view == buffers_get(frames.stack, loc, w[1], w[2])
          IN  frames' = [frames EXCEPT !.res =
                            [op |-> "view_output", index |-> index,
                             start |-> w[1], len |-> w[2],
                             out |-> IF view.is = "Panic" THEN PanicBuf ELSE loc,
                             samples |-> view.samples]]
    /\ BufUnchanged

\* handle.with_buffer_pos(start, len).get_output(index), and every sample of
\* the slice is written
ViewWrite ==
    /\ frames.stack # <<>>
    /\ frames.writes < MaxWrites
    /\ \E index \in Slots, w \in Windows :
          LET loc == handle_get_output(frames.stack, Len(frames.stack), index)
              view == buffers_get(frames.stack, loc, w[1], w[2])
          IN  frames' = [frames EXCEPT
                            !.stack = IF view.is = "Some"
                                      THEN buffers_set(@, loc, w[1], w[2],
                                                       written(w[2]))
                                      ELSE @,
                            !.writes = @ + 1,
                            !.res =
                               [op |-> "write", index |-> index,
                                start |-> w[1], len |-> w[2],
                                out |-> IF view.is = "Panic" THEN PanicBuf ELSE loc,
                                samples |-> IF view.is = "Some"
                                            THEN written(w[2]) ELSE <<>>]]
    /\ BufUnchanged

NextBuf ==
    \/ Toplevel
    \/ AppendFrame
    \/ GetOutput
    \/ GetInput
    \/ ViewInput
    \/ ViewOutput
    \/ ViewWrite

SpecBuf == InitBuf /\ [][NextBuf]_vars

----------------------------------------------------------------------------
(* The allocator specification: a BufferAllocator whose caller finds free   *)
(* buffers, clones and drops the handles, and reads len() for num_buffers   *)

InitAlloc ==
    /\ nodes = EmptyMap
    /\ ret = NoCall
    /\ sinks = {}
    /\ order = <<>>
    /\ intermediate = EmptyMap
    /\ schedule = NoSchedule
    /\ exec = NoExec
    /\ frames = NoFrames
    /\ allocator = NoAllocator
    /\ OthersIdle

AllocUnchanged ==
    UNCHANGED <<nodes, ret, sinks, order, intermediate, schedule, exec, frames, others>>

\* allocator.find_free_buffer()
FindFreeBuffer ==
    /\ allocator.calls < MaxFinds
    /\ LET found == find_free_buffer(allocator.ids)
       IN  /\ Len(found.ids) <= MaxBufs
           /\ allocator' = [allocator EXCEPT
                               !.ids = found.ids,
                               !.returned = @ \cup {found.id},
                               !.id = found.id,
                               !.reused = found.id \in allocator.dropped,
                               !.calls = @ + 1]
    /\ AllocUnchanged

\* Rc::clone of the handle find_free_buffer returned last, or of a clone of
\* a handle
CloneHandle ==
    /\ \E b \in allocator.returned :
          /\ b = allocator.id \/ allocator.ids[b + 1] > 1
          /\ allocator.ids[b + 1] <= MaxClaims
          /\ allocator' = [allocator EXCEPT !.ids = rc_clone(@, b),
                                            !.dropped = @ \ {b}]
    /\ AllocUnchanged

\* drop of a clone of a handle
DropHandle ==
    /\ \E b \in allocator.returned :
          /\ allocator.ids[b + 1] > 1
          /\ allocator' = [allocator EXCEPT
                               !.ids = rc_drop(@, b),
                               !.dropped = IF allocator.ids[b + 1] = 2
                                           THEN @ \cup {b} ELSE @]
    /\ AllocUnchanged

\* GraphSchedule { num_buffers: allocator.len(), .. }
ReadLen ==
    /\ allocator' = [allocator EXCEPT !.num_buffers = allocator_len(allocator.ids)]
    /\ AllocUnchanged

NextAlloc ==
    \/ FindFreeBuffer
    \/ CloneHandle
    \/ DropHandle
    \/ ReadLen

SpecAlloc == InitAlloc /\ [][NextAlloc]_vars

----------------------------------------------------------------------------
(* The cloning specification: a graph edited through insert_node,           *)
(* try_insert_edge_acyclic and copies of its own nodes (Node is Clone and   *)
(* get_node is public), and a new scheduler asked for a sink                *)

\* a call that panicked or never returned ends the program
Ended == ret.res \in {"Panic", "Overflow"}

\* graph.insert_node(id, node) with a node made from Node::default
InsertFresh ==
    /\ ~Ended
    /\ \E id \in NodeIds, node \in FreshNodes :
          /\ nodes' = insert_node(nodes, id, node)
          /\ ret' = [NoCall EXCEPT !.op = "insert_node", !.to = <<id, 0>>]
    /\ order' = <<>>
    /\ intermediate' = EmptyMap
    /\ UNCHANGED <<sinks, schedule, exec, frames, allocator, others>>

\* graph.insert_node(id, graph.get_node(&of).unwrap().clone())
InsertClone ==
    /\ ~Ended
    /\ \E id \in NodeIds, of \in DOMAIN nodes :
          /\ nodes' = insert_node(nodes, id, nodes[of])
          /\ ret' = [NoCall EXCEPT !.op = "insert_node", !.from = <<of, 0>>,
                                   !.to = <<id, 0>>]
    /\ order' = <<>>
    /\ intermediate' = EmptyMap
    /\ UNCHANGED <<sinks, schedule, exec, frames, allocator, others>>

\* graph.try_insert_edge_acyclic(from, to)
TryInsertEdge ==
    /\ ~Ended
    /\ \E from \in NodeIds \X EditOutIds, to \in NodeIds \X EditInIds :
          \E r \in try_insert_edge_acyclic_runs(nodes, from, to) :
              /\ nodes' = r.graph
              /\ ret' = [op |-> "try_insert_edge_acyclic", from |-> from,
                         to |-> to, res |-> r.res]
    /\ order' = <<>>
    /\ intermediate' = EmptyMap
    /\ UNCHANGED <<sinks, schedule, exec, frames, allocator, others>>

\* graph.scheduler().add_sink_node(index)
AddSinkToNew ==
    /\ ~Ended
    /\ \E index \in DOMAIN nodes :
          \E r \in add_sink_node_runs(nodes,
                        [order |-> <<>>, intermediate |-> EmptyMap], index, 1) :
              /\ order' = r.st.order
              /\ intermediate' = r.st.intermediate
              /\ ret' = [NoCall EXCEPT
                            !.op = "add_sink_node", !.to = <<index, 0>>,
                            !.res = IF r.out = "returns" THEN "Returns"
                                    ELSE IF r.out = "panic" THEN "Panic"
                                    ELSE "Overflow"]
    /\ UNCHANGED <<nodes, sinks, schedule, exec, frames, allocator, others>>

NextCloned ==
    \/ InsertFresh
    \/ InsertClone
    \/ TryInsertEdge
    \/ AddSinkToNew

SpecCloned == Init /\ [][NextCloned]_vars

----------------------------------------------------------------------------
(* Properties of the graph-editing specification *)

\* the nodes with an edge into v
Producers(g, v) == UNION { DOMAIN g[v].inputs[i] : i \in DOMAIN g[v].inputs }

\* the nodes reached from the nodes of S by following edges forwards
RECURSIVE Downstream(_, _)
Downstream(g, S) ==
    LET T == S \cup { v \in DOMAIN g : Producers(g, v) \cap S # {} }
    IN  IF T = S THEN S ELSE Downstream(g, T)

\* a directed path of at least one edge leads from a to b
HasPath(g, a, b) ==
    b \in Downstream(g, { v \in DOMAIN g : a \in Producers(g, v) })

\* both endpoints of the edge from -> to exist
EndpointsExist(g, from, to) ==
    /\ from[1] \in DOMAIN g
    /\ from[2] \in DOMAIN g[from[1]].out_lats
    /\ to[1] \in DOMAIN g
    /\ to[2] \in DOMAIN g[to[1]].inputs

\* the edge from -> to is stored in the graph
HasEdge(g, from, to) ==
    /\ to[1] \in DOMAIN g
    /\ to[2] \in DOMAIN g[to[1]].inputs
    /\ from[1] \in DOMAIN g[to[1]].inputs[to[2]]
    /\ from[2] \in g[to[1]].inputs[to[2]][from[1]]

\* the step is a call of try_insert_edge_acyclic
EdgeCall == ret'.op = "try_insert_edge_acyclic"

C2_CycleIffPath ==
    [][ (EdgeCall /\ EndpointsExist(nodes, ret'.from, ret'.to))
        => /\ (ret'.res = "ErrTrue")
                <=> (\/ ret'.from[1] = ret'.to[1]
                     \/ HasPath(nodes, ret'.to[1], ret'.from[1]))
           /\ (ret'.res = "ErrTrue" => nodes' = nodes) ]_vars

\* an edge m -> n is stored and the edge n -> m has been rejected
C2_Witness ==
    /\ ret.res = "ErrTrue"
    /\ ret.from[1] # ret.to[1]
    /\ ret.to[1] \in Producers(nodes, ret.from[1])

\* C3: try_insert_edge_acyclic returns Err(false) whenever an endpoint does
\* not exist, also when source and destination are the same node; the graph is
\* unchanged and the call does not panic.
C3_PortMissing ==
    [][ (EdgeCall /\ ~EndpointsExist(nodes, ret'.from, ret'.to))
        => (ret'.res = "ErrFalse" /\ nodes' = nodes) ]_vars

\* an edge from a node to itself, one of whose ports is missing, has been
\* answered Err(false)
C3_Witness ==
    /\ ret.res = "ErrFalse"
    /\ ret.from[1] = ret.to[1]
    /\ ret.from[1] \in DOMAIN nodes

\* C4: try_insert_edge_acyclic returns Ok(true) when it stores an edge that
\* was not there and Ok(false) when the edge was there already; the call that
\* follows an Ok(true) with the same edge returns Ok(false) and changes
\* nothing, and the input then holds the source output once.
C4_RedundantEdge ==
    [][ /\ (EdgeCall /\ ret'.res \in {"OkTrue", "OkFalse"})
            => /\ (ret'.res = "OkTrue") <=> ~HasEdge(nodes, ret'.from, ret'.to)
               /\ HasEdge(nodes', ret'.from, ret'.to)
        /\ (/\ EdgeCall
            /\ ret.op = "try_insert_edge_acyclic"
            /\ ret.res = "OkTrue"
            /\ ret'.from = ret.from
            /\ ret'.to = ret.to)
            => /\ ret'.res = "OkFalse"
               /\ nodes' = nodes
               /\ LET port == nodes'[ret.to[1]].inputs[ret.to[2]]
                  IN  Cardinality({ o \in port[ret.from[1]] : o = ret.from[2] }) = 1
       ]_vars

\* the same edge has been inserted a second time
C4_Witness ==
    /\ ret.res = "OkFalse"
    /\ HasEdge(nodes, ret.from, ret.to)

----------------------------------------------------------------------------
(* Properties of the scheduling specification *)

\* the edges (u, o) -> (v, i) of the graph, as <<u, o, v, i>>
GraphEdges ==
    { e \in NodeIds \X OutIds \X NodeIds \X InIds :
        HasEdge(nodes, <<e[1], e[2]>>, <<e[3], e[4]>>) }

\* the edges into scheduled nodes
ScheduledEdges == { e \in GraphEdges : e[3] \in DOMAIN intermediate }

\* the nodes from which a declared sink is reachable, the sinks included
ReachSinks ==
    { n \in DOMAIN nodes : n \in sinks \/ \E s \in sinks : HasPath(nodes, n, s) }

TaskIdx == 1..Len(schedule.tasks)

\* the positions of the task Node(n)
NodePositions(n) == { k \in TaskIdx : schedule.tasks[k] = TaskNode(n) }

\* the position of the task Sum(index)
SumPositions(index) == { k \in TaskIdx : schedule.tasks[k] = TaskSum(index) }

\* the SumNode of the task Sum(index)
SumOf(index) == schedule.sum_nodes[index + 1]

\* the Direct sources summed, through the sum chain, into a source
RECURSIVE DirectSources(_)
DirectSources(source) ==
    IF source.kind = "GraphNode" THEN {source}
    ELSE IF source.kind = "SumNode"
    THEN DirectSources(SumOf(source.index).summands[1])
            \cup DirectSources(SumOf(source.index).summands[2])
    ELSE {}

\* the sources task k reads
Operands(k) ==
    LET t == schedule.tasks[k]
    IN  IF t.kind = "Sum"
        THEN { SumOf(t.id).summands[1], SumOf(t.id).summands[2] }
        ELSE { schedule.node_io[t.id].inputs[i] :
                 i \in DOMAIN schedule.node_io[t.id].inputs } \ {NoSource}

\* the buffer that holds the signal a source names
BufOfSource(source) ==
    IF source.kind = "SumNode"
    THEN SumOf(source.index).output_buf
    ELSE schedule.node_io[source.node_id].outputs[source.port_id].buf_id

\* the positions of the task that produces the signal a source names
ProducerOf(source) ==
    IF source.kind = "SumNode"
    THEN SumPositions(source.index)
    ELSE NodePositions(source.node_id)

\* the signal a source names, whatever its delay
SignalOf(source) == [source EXCEPT !.delay = 0]

\* the signals of the schedule: the used outputs of the nodes and the sums
Signals ==
    { GraphNode(0, n, o) : <<n, o>> \in
        { no \in (DOMAIN schedule.node_io) \X OutIds :
            /\ no[2] \in DOMAIN schedule.node_io[no[1]].outputs
            /\ schedule.node_io[no[1]].outputs[no[2]].some } }
    \cup { SumNode(x) : x \in 0..(Len(schedule.sum_nodes) - 1) }

\* the tasks that read a signal
Readers(sig) == { k \in TaskIdx : \E s \in Operands(k) : SignalOf(s) = sig }

\* the buffers task k reads and writes
Reads(k) == { BufOfSource(s) : s \in Operands(k) }
Writes(k) ==
    LET t == schedule.tasks[k]
    IN  IF t.kind = "Sum"
        THEN { SumOf(t.id).output_buf }
        ELSE { schedule.node_io[t.id].outputs[o].buf_id :
                 o \in { q \in DOMAIN schedule.node_io[t.id].outputs :
                           schedule.node_io[t.id].outputs[q].some } }

\* C5: in the compiled task list, for every edge (u,o) -> (v,i) between
\* scheduled nodes, Node(u) comes before Node(v), and every Sum task created
\* for output o of u lies after Node(u) and before Node(v).
C5_TaskOrder ==
    schedule.compiled =>
        \A e \in ScheduledEdges :
            /\ NodePositions(e[1]) # {}
            /\ NodePositions(e[3]) # {}
            /\ \A ku \in NodePositions(e[1]), kv \in NodePositions(e[3]) :
                  /\ ku < kv
                  /\ \A k \in TaskIdx :
                        (/\ schedule.tasks[k].kind = "Sum"
                         /\ SumOf(schedule.tasks[k].id).summands[2].node_id = e[1]
                         /\ SumOf(schedule.tasks[k].id).summands[2].port_id = e[2])
                        => (ku < k /\ k < kv)

\* a schedule of three nodes with a Sum task that is not the second task
C5_Witness ==
    /\ schedule.compiled
    /\ Cardinality(DOMAIN schedule.node_io) = 3
    /\ \E k \in TaskIdx : k > 2 /\ schedule.tasks[k].kind = "Sum"

\* C6: after compile every edge (u,o) -> (v,i) into a scheduled node v is the
\* Direct source of (v,i) or a Direct summand of the sum chain that feeds
\* (v,i), with a delay d such that
\* d + max_input_latency(u) + latency(u,o) = max_input_latency(v); no delay
\* of the schedule is negative.
C6_DelayMatches ==
    schedule.compiled =>
        /\ \A e \in ScheduledEdges :
              /\ e[4] \in DOMAIN schedule.node_io[e[3]].inputs
              /\ \E s \in DirectSources(schedule.node_io[e[3]].inputs[e[4]]) :
                    /\ s.node_id = e[1]
                    /\ s.port_id = e[2]
                    /\ s.delay >= 0
                    /\ s.delay + intermediate[e[1]].max_delay
                          + nodes[e[1]].out_lats[e[2]]
                       = intermediate[e[3]].max_delay
        /\ \A x \in 1..Len(schedule.sum_nodes) :
              /\ schedule.sum_nodes[x].summands[1].delay >= 0
              /\ schedule.sum_nodes[x].summands[2].delay >= 0
        /\ \A n \in DOMAIN schedule.node_io :
              \A o \in DOMAIN schedule.node_io[n].outputs :
                  schedule.node_io[n].outputs[o].max_delay >= 0

\* an input is fed by a sum one of whose summands is delayed, while the
\* producer of that summand has inputs that are late themselves
C6_Witness ==
    /\ schedule.compiled
    /\ \E x \in 1..Len(schedule.sum_nodes) :
          \E j \in 1..2 :
              /\ schedule.sum_nodes[x].summands[j].kind = "GraphNode"
              /\ schedule.sum_nodes[x].summands[j].delay > 0
              /\ intermediate[schedule.sum_nodes[x].summands[j].node_id].max_delay > 0

\* C7: the max input latency add_sink_node records for a node is the maximum,
\* over the edges (u,o) -> (node,i) into it, of
\* max_input_latency(u) + latency(u,o), and 0 when no edge leads into it.
C7_MaxInputLatency ==
    \A n \in DOMAIN intermediate :
        intermediate[n].max_delay =
            MaxOf({0} \cup { intermediate[e[1]].max_delay + nodes[e[1]].out_lats[e[2]] :
                               e \in { f \in GraphEdges : f[3] = n } })

\* the latency of a node comes from a producer whose own inputs are late
C7_Witness ==
    \E e \in ScheduledEdges :
        /\ intermediate[e[1]].max_delay > 0
        /\ nodes[e[1]].out_lats[e[2]] > 0
        /\ intermediate[e[3]].max_delay
              = intermediate[e[1]].max_delay + nodes[e[1]].out_lats[e[2]]

\* the part of C8 that holds in every state
C8_Reachable ==
    /\ { order[k] : k \in 1..Len(order) } = ReachSinks
    /\ Len(order) = Cardinality(ReachSinks)
    /\ DOMAIN intermediate = ReachSinks
    /\ schedule.compiled =>
          /\ \A n \in ReachSinks : Cardinality(NodePositions(n)) = 1
          /\ \A k \in TaskIdx :
                schedule.tasks[k].kind = "Node" => schedule.tasks[k].id \in ReachSinks

\* C8: the scheduling order holds exactly the nodes from which a declared
\* sink is reachable, each once; declaring a node that is present already
\* changes neither the order nor the intermediate map; compile emits one Node
\* task for each node of the order and no other.
C8_ScheduledNodes ==
    /\ [] C8_Reachable
    /\ [][ (sinks' \ sinks) \subseteq DOMAIN intermediate
            => (order' = order /\ intermediate' = intermediate) ]_vars

\* a node that is scheduled as the producer of a sink has been declared a
\* sink itself, and a third node reaches no sink
C8_Witness ==
    /\ schedule.compiled
    /\ Len(order) = 2
    /\ sinks = { order[1], order[2] }
    /\ HasPath(nodes, order[1], order[2])
    /\ Cardinality(DOMAIN nodes) = 3

\* C9: for every signal written into buffer b by task p, every reader runs
\* after p, no task strictly between p and the last reader writes b, and the
\* last reader writes b only if it is a Sum task.
C9_NoAlias ==
    schedule.compiled =>
        \A sig \in Signals :
            \A p \in ProducerOf(sig) :
                LET b == BufOfSource(sig)
                    R == Readers(sig)
                IN  /\ \A k \in R : p < k
                    /\ R # {} =>
                          /\ \A t \in TaskIdx :
                                (p < t /\ t < MaxOf(R)) => b \notin Writes(t)
                          /\ b \in Writes(MaxOf(R))
                                => schedule.tasks[MaxOf(R)].kind = "Sum"

\* a buffer is written again after the last reader of its first signal, and
\* a Sum task stores its result over one of its operands
C9_Witness ==
    /\ schedule.compiled
    /\ \E k \in TaskIdx :
          /\ schedule.tasks[k].kind = "Sum"
          /\ Writes(k) \subseteq Reads(k)
    /\ \E k1, k2 \in TaskIdx :
          /\ k1 < k2
          /\ schedule.tasks[k2].kind = "Node"
          /\ Writes(k1) \cap Writes(k2) # {}

\* C10, as stated: between two tasks that write buffer b, no task reads b.
C10_NoReadBetweenWrites ==
    schedule.compiled =>
        \A t1, t2 \in TaskIdx :
            \A b \in Writes(t1) \cap Writes(t2) :
                \A t \in TaskIdx : (t1 < t /\ t < t2) => b \notin Reads(t)

\* C10, amended: when t1 < t2 both write buffer b, no task after t2 reads
\* from b the signal that t1 wrote.
C10_NoReadAfterOverwrite ==
    schedule.compiled =>
        \A t1, t2 \in TaskIdx :
            t1 < t2 =>
                \A b \in Writes(t1) \cap Writes(t2) :
                    \A t \in TaskIdx :
                        t > t2 =>
                            \A s \in Operands(t) :
                                ~(BufOfSource(s) = b /\ t1 \in ProducerOf(s))

\* a task reads buffer b between two tasks that write it
C10_Witness ==
    /\ schedule.compiled
    /\ \E t1, t2, t \in TaskIdx :
          /\ t1 < t /\ t < t2
          /\ Writes(t1) \cap Writes(t2) \cap Reads(t) # {}

\* the edges out of output o of node n into scheduled nodes
ConsumerEdges(n, o) == { e \in ScheduledEdges : e[1] = n /\ e[2] = o }

\* the delays the schedule gives to the edge e: those of the Direct sources
\* of its input port that name its output
DelaysOfEdge(e) ==
    { s.delay : s \in { d \in DirectSources(schedule.node_io[e[3]].inputs[e[4]]) :
                          d.node_id = e[1] /\ d.port_id = e[2] } }

\* C11: after compile, every output of a scheduled node that a scheduled node
\* consumes is bound to one buffer id below num_buffers, every consumer reads
\* it through a source that names the output (and so from that buffer), and
\* its max_delay is the largest delay among its consumer edges.
C11_OutputBinding ==
    schedule.compiled =>
        \A n \in DOMAIN schedule.node_io :
            \A o \in DOMAIN nodes[n].out_lats :
                ConsumerEdges(n, o) # {} =>
                    /\ o \in DOMAIN schedule.node_io[n].outputs
                    /\ schedule.node_io[n].outputs[o].some
                    /\ schedule.node_io[n].outputs[o].buf_id
                          \in 0..(schedule.num_buffers - 1)
                    /\ \A e \in ConsumerEdges(n, o) :
                          /\ Cardinality(DelaysOfEdge(e)) = 1
                          /\ \E k \in NodePositions(e[3]) \cup
                                      { q \in TaskIdx : schedule.tasks[q].kind = "Sum" } :
                                \E s \in Operands(k) :
                                    /\ SignalOf(s) = GraphNode(0, n, o)
                                    /\ BufOfSource(s)
                                          = schedule.node_io[n].outputs[o].buf_id
                    /\ schedule.node_io[n].outputs[o].max_delay
                          = MaxOf(UNION { DelaysOfEdge(e) : e \in ConsumerEdges(n, o) })

\* an output fans out to two nodes with different delays
C11_Witness ==
    /\ schedule.compiled
    /\ \E n \in DOMAIN schedule.node_io :
          \E o \in DOMAIN nodes[n].out_lats :
              /\ Cardinality({ e[3] : e \in ConsumerEdges(n, o) }) = 2
              /\ Cardinality(UNION { DelaysOfEdge(e) : e \in ConsumerEdges(n, o) }) = 2
              /\ schedule.node_io[n].outputs[o].max_delay > 0

\* the indices of the sums in the chain of a source
RECURSIVE SumsOf(_)
SumsOf(source) ==
    IF source.kind = "SumNode"
    THEN {source.index} \cup SumsOf(SumOf(source.index).summands[1])
                        \cup SumsOf(SumOf(source.index).summands[2])
    ELSE {}

\* the edges into the input port i of node v
EdgesInto(v, i) == { e \in GraphEdges : e[3] = v /\ e[4] = i }

\* the <<node, input port>> pairs of the scheduled nodes that an edge feeds
FedPorts ==
    { vi \in (DOMAIN schedule.node_io) \X InIds : EdgesInto(vi[1], vi[2]) # {} }

\* C12: for every input port of a scheduled node fed by k >= 1 edges, the
\* chain that feeds the port holds k - 1 sums, each the subject of one Sum
\* task, and no Sum task belongs to two ports or to none.
C12_SumCount ==
    schedule.compiled =>
        /\ \A vi \in FedPorts :
              LET chain == SumsOf(schedule.node_io[vi[1]].inputs[vi[2]])
              IN  /\ Cardinality(chain) = Cardinality(EdgesInto(vi[1], vi[2])) - 1
                  /\ \A x \in chain : Cardinality(SumPositions(x)) = 1
        /\ \A vi, wj \in FedPorts :
              vi # wj => SumsOf(schedule.node_io[vi[1]].inputs[vi[2]])
                            \cap SumsOf(schedule.node_io[wj[1]].inputs[wj[2]]) = {}
        /\ \A k \in TaskIdx :
              schedule.tasks[k].kind = "Sum" =>
                  \E vi \in FedPorts :
                      schedule.tasks[k].id
                          \in SumsOf(schedule.node_io[vi[1]].inputs[vi[2]])

\* a port fed by three edges, two of them outputs of one node, has two sums
C12_Witness ==
    /\ schedule.compiled
    /\ \E vi \in FedPorts :
          /\ Cardinality(EdgesInto(vi[1], vi[2])) = 3
          /\ Cardinality({ e[1] : e \in EdgesInto(vi[1], vi[2]) }) = 2
          /\ Cardinality(SumsOf(schedule.node_io[vi[1]].inputs[vi[2]])) = 2

\* C13: after compile, the binding of every scheduled node has an entry for
\* each output the node declares, and the entry is None exactly when no
\* scheduled node consumes the output.
C13_OutputEntries ==
    schedule.compiled =>
        \A n \in DOMAIN schedule.node_io :
            /\ DOMAIN schedule.node_io[n].outputs = DOMAIN nodes[n].out_lats
            /\ \A o \in DOMAIN nodes[n].out_lats :
                  (~schedule.node_io[n].outputs[o].some) <=> ConsumerEdges(n, o) = {}

\* an output that only a node outside the schedule consumes is bound to None
C13_Witness ==
    /\ schedule.compiled
    /\ \E e \in GraphEdges :
          /\ e[1] \in DOMAIN schedule.node_io
          /\ e[3] \notin DOMAIN schedule.node_io
          /\ ~schedule.node_io[e[1]].outputs[e[2]].some

\* C14, as stated: after compile, the binding of every scheduled node has an
\* entry for each input port the node declares, Some(source) when an edge
\* feeds the port and None when none does.
C14_InputEntries ==
    schedule.compiled =>
        \A n \in DOMAIN schedule.node_io :
            /\ DOMAIN schedule.node_io[n].inputs = DOMAIN nodes[n].inputs
            /\ \A i \in DOMAIN schedule.node_io[n].inputs :
                  (schedule.node_io[n].inputs[i] # NoSource) <=> EdgesInto(n, i) # {}

\* the signals live at task k: written at or before k, and read at or after k
LiveAt(k) ==
    { sig \in Signals :
        \E p \in ProducerOf(sig) : p <= k /\ k <= MaxOf(Readers(sig) \cup {p}) }

\* the peak number of simultaneously live signals
PeakLive == MaxOf({0} \cup { Cardinality(LiveAt(k)) : k \in TaskIdx })

\* C15, as stated: num_buffers is at most the peak number of simultaneously
\* live signals, a signal being live from the task that writes it up to and
\* including the last task that reads it.
C15_BufferBound == schedule.compiled => schedule.num_buffers <= PeakLive

\* the Direct sources summed, through the sum chain of the schedule sch, into
\* a source
RECURSIVE DirectSourcesIn(_, _)
DirectSourcesIn(sch, source) ==
    IF source.kind = "GraphNode" THEN {source}
    ELSE IF source.kind = "SumNode"
    THEN DirectSourcesIn(sch, sch.sum_nodes[source.index + 1].summands[1])
            \cup DirectSourcesIn(sch, sch.sum_nodes[source.index + 1].summands[2])
    ELSE {}

\* the edges the schedule sch delivers, each with its delay:
\* <<source node, source output, dest node, dest input, delay>>
EdgeDelaysIn(sch) ==
    UNION { UNION { { <<s.node_id, s.port_id, v, i, s.delay>> :
                        s \in DirectSourcesIn(sch, sch.node_io[v].inputs[i]) } :
                    i \in DOMAIN sch.node_io[v].inputs } :
            v \in DOMAIN sch.node_io }

\* C16: for a fixed graph and a fixed node order, every schedule compile can
\* return, whatever the iteration order over outputs, consumers and repeat
\* buckets, has the same task list and the same delay on every edge.
C16_OrderIndependent ==
    schedule.compiled =>
        \A other \in compile(nodes, order, intermediate) :
            /\ other.tasks = schedule.tasks
            /\ EdgeDelaysIn(other) = EdgeDelaysIn(schedule)

\* another iteration order gives a schedule whose first sum has another lhs
\* and another output buffer
C16_Witness ==
    /\ schedule.compiled
    /\ Len(schedule.sum_nodes) > 0
    /\ \E other \in compile(nodes, order, intermediate) :
          /\ SignalOf(other.sum_nodes[1].summands[1])
                # SignalOf(schedule.sum_nodes[1].summands[1])
          /\ other.sum_nodes[1].output_buf # schedule.sum_nodes[1].output_buf

\* every connection stored on an input port names a node of the graph and an
\* output of that node
NoDanglingEdge(g) ==
    \A v \in DOMAIN g :
        \A i \in DOMAIN g[v].inputs :
            \A n \in DOMAIN g[v].inputs[i] :
                /\ n \in DOMAIN g
                /\ g[v].inputs[i][n] \subseteq DOMAIN g[n].out_lats

\* C17, as stated: after any sequence of insert_node, add_input, add_output,
\* remove_input, remove_output, remove_port and try_insert_edge_acyclic calls,
\* every stored connection names an existing node and an existing output.
C17_NoDanglingEdge == NoDanglingEdge(nodes)

\* C18, as stated: add_input(id) on a node that has an input with that id
\* leaves the node unchanged.
C18_AddInputIdempotent ==
    [][ (ret'.op = "add_input" /\ ret'.to[2] \in DOMAIN nodes[ret'.to[1]].inputs)
        => nodes' = nodes ]_vars

----------------------------------------------------------------------------
(* Properties of the executor specification *)

\* the step is a call of process
ProcessCall == exec'.calls = exec.calls + 1

\* every index of the task resolves to a buffer and its processor is present
Resolves(ex, task) ==
    IF task.kind = "Sum"
    THEN \A x \in { get_input_shared(ex, task.left_input),
                    get_input_shared(ex, task.right_input),
                    get_output_shared(ex, task.output) } :
            x.where \in {"host", "local"}
    ELSE IF task.kind = "CopyToMasterOutput"
    THEN /\ get_input_shared(ex, task.left_input).where \in {"host", "local"}
         /\ \A k \in 1..Len(task.outputs) :
               get_output_shared(ex, Global(task.outputs[k])).where = "host"
    ELSE IF task.kind = "Process"
    THEN /\ task.index < Len(ex.processors)
         /\ ex.processors[task.index + 1].kind # "None"
         /\ \A k \in 1..Len(task.inputs) :
               task.inputs[k].kind # "None" =>
                   get_input_shared(ex, task.inputs[k]).where # "Panic"
         /\ \A k \in 1..Len(task.outputs) :
               task.outputs[k].kind # "None" =>
                   get_output_shared(ex, task.outputs[k]).where # "Panic"
    ELSE FALSE

\* C19: a call of process that returns has run every task of the schedule
\* once, in list order, and its mask is true in a lane exactly when every
\* processor a Process task ran returned true in that lane; Sum and copy
\* tasks do not touch the mask.  The call returns when every task is a Sum,
\* copy or Process task whose indices resolve and whose processor is present.
C19_ProcessRunsAll ==
    [][ ProcessCall =>
          LET S == exec.schedule
          IN  /\ (\A k \in 1..Len(S) : Resolves(exec, S[k])) => ~exec'.panicked
              /\ ~exec'.panicked =>
                    /\ exec'.ran = [k \in 1..Len(S) |-> k]
                    /\ \A l \in 1..NumLanes :
                          exec'.mask[l] <=>
                              \A k \in 1..Len(S) :
                                  S[k].kind = "Process" =>
                                      exec.processors[S[k].index + 1].mask[l]
       ]_vars

\* a call ran two Process tasks and a Sum task, and returned a mask with a
\* true lane and a false lane that neither processor returned
C19_Witness ==
    /\ exec.called
    /\ ~exec.panicked
    /\ Len(exec.ran) = 3
    /\ \E j, k, x \in 1..Len(exec.schedule) :
          /\ exec.schedule[j].kind = "Process"
          /\ exec.schedule[k].kind = "Process"
          /\ exec.schedule[x].kind = "Sum"
          /\ exec.schedule[j].index # exec.schedule[k].index
          /\ exec.processors[exec.schedule[j].index + 1].mask # exec.mask
          /\ exec.processors[exec.schedule[k].index + 1].mask # exec.mask
    /\ \E l1, l2 \in 1..NumLanes : exec.mask[l1] /\ ~exec.mask[l2]

after_tasks(ex, k) == process([ex EXCEPT !.schedule = SubSeq(@, 1, k)])

\* C21, as stated: when process runs the Sum task of a sum whose summands
\* carry the delays dl and dr, the sample t of the sum's output buffer is
\* lhs[t - dl] + rhs[t - dr], for every t whose two operand samples lie in
\* the block.
C21_SumAligned ==
    [][ (ProcessCall /\ exec.pair.schedule # NoPair) =>
          LET sch == exec.pair.schedule[2]
          IN  \A k \in 1..Len(sch.tasks) :
                  sch.tasks[k].kind = "Sum" =>
                      LET sum == sch.sum_nodes[sch.tasks[k].id + 1]
                          dl == source_delay(sum.summands[1])
                          dr == source_delay(sum.summands[2])
                          task == exec.schedule[k]
                          before == after_tasks(exec, k - 1)
                          after == process_task(before, task)
                          lhs == read_buf(before,
                                     get_input_shared(before, task.left_input))
                          rhs == read_buf(before,
                                     get_input_shared(before, task.right_input))
                          out == read_buf(after,
                                     get_output_shared(after, task.output))
                      IN  ~before.panicked =>
                              /\ ~after.panicked
                              /\ \A t \in (MaxOf({dl, dr}) + 1)..BlockLen :
                                    out[t] = lhs[t - dl] + rhs[t - dr]
       ]_vars

\* the task names a processor slot that is out of range or empty
MissingProcessor(ex, task) ==
    /\ task.kind = "Process"
    /\ \/ task.index >= Len(ex.processors)
       \/ ex.processors[task.index + 1].kind = "None"

\* C22: a call of process on a schedule with a Process task whose processor
\* slot is out of range or empty panics, and that task is not among the tasks
\* the call ran.
C22_MissingProcessorPanics ==
    [][ ProcessCall =>
          \A k \in 1..Len(exec.schedule) :
              MissingProcessor(exec, exec.schedule[k]) =>
                  /\ exec'.panicked
                  /\ Len(exec'.ran) < k
       ]_vars

\* a call ran a first task and panicked at a Process task whose processor
\* had been removed from its slot
C22_Witness ==
    /\ exec.called
    /\ exec.panicked
    /\ Len(exec.ran) >= 1
    /\ Len(exec.schedule) > Len(exec.ran)
    /\ LET task == exec.schedule[Len(exec.ran) + 1]
       IN  /\ task.kind = "Process"
           /\ task.index \in 1..(Len(exec.processors) - 1)
           /\ exec.processors[task.index + 1].kind = "None"

\* the indices a task names
IndicesOf(task) ==
    {task.left_input, task.right_input, task.output}
        \cup { task.inputs[k] : k \in 1..Len(task.inputs) }
        \cup (IF task.kind = "CopyToMasterOutput" THEN {}
              ELSE { task.outputs[k] : k \in 1..Len(task.outputs) })

\* every Intermediate index of the schedule is a buffer of the pool
InPool(ex) ==
    \A k \in 1..Len(ex.schedule) :
        \A x \in IndicesOf(ex.schedule[k]) :
            x.kind = "Intermediate" => x.i < Len(ex.buffers)

\* C23, as stated: in every block run by process, the schedule and the pool
\* in effect are the two halves of one pair, and every buffer index a task
\* refers to exists in the pool.
C23_PairInEffect ==
    [][ ProcessCall =>
          /\ exec.pair.schedule = exec.pair.buffers
          /\ InPool(exec)
       ]_vars

----------------------------------------------------------------------------
(* Properties of the buffer specification *)

\* C24: in a nest of any depth, get_output(i) on a handle gives None when i
\* is past the end of the output table or the entry is None, the buffer k of
\* the frame's own pool for Intermediate(k), and for Global(k) what
\* get_output(k) gives on the parent handle; get_input(i) gives None in the
\* same cases, resolves GlobalInput(k) with get_input(k) on the parent, and
\* an output index as get_output does; a Global or GlobalInput index panics
\* in the top-level frame.
C24_NestedLookup ==
    [][(/\ frames'.stack = frames.stack
        /\ frames'.res.op \in {"get_output", "get_input"})
       => LET stack == frames.stack
              d == Len(stack)
              i == frames'.res.index
              r == frames'.res.out
              table == IF frames'.res.op = "get_output"
                       THEN stack[d].outputs ELSE stack[d].inputs
          IN  IF i >= Len(table) THEN r = NoBuf
              ELSE LET entry == table[i + 1]
                   IN  /\ entry = NoIndex => r = NoBuf
                       /\ (entry.kind = "Intermediate"
                             /\ entry.i < Len(stack[d].buffers))
                          => r = SomeBuf(d, entry.i)
                       /\ (entry.kind = "Global" /\ d = 1) => r = PanicBuf
                       /\ (entry.kind = "Global" /\ d > 1)
                          => r = handle_get_output(stack, d - 1, entry.i)
                       /\ (entry.kind = "GlobalInput" /\ d = 1) => r = PanicBuf
                       /\ (entry.kind = "GlobalInput" /\ d > 1)
                          => r = handle_get_input(stack, d - 1, entry.i)]_vars

\* an input of the innermost of three handles was found, through the inputs
\* of its two parents, in the pool of the top-level frame
C24_Witness ==
    /\ frames.res.op = "get_input"
    /\ Len(frames.stack) = MaxDepth
    /\ frames.res.out = SomeBuf(1, 0)
    /\ frames.stack[MaxDepth].inputs[frames.res.index + 1].kind = "GlobalInput"

\* C25: a Buffers view with the window (start, len) gives, for an input or
\* an output it resolves, len samples, and sample j of the view is sample
\* start + j of the buffer; a write through the view sets the samples of the
\* window and changes no other sample of any buffer.
C25_ViewWindow ==
    [][LET res == frames'.res
           start == res.start
           len == res.len
       IN  /\ (/\ frames'.stack = frames.stack
               /\ res.op \in {"view_input", "view_output"}
               /\ res.out.is = "Some")
              => /\ Len(res.samples) = len
                 /\ \A j \in 0..(len - 1) :
                       res.samples[j + 1] =
                           nest_buf(frames.stack, res.out)[start + j + 1]
           /\ (/\ frames'.writes = frames.writes + 1
               /\ res.op = "write"
               /\ res.out.is = "Some")
              => /\ Len(frames'.stack) = Len(frames.stack)
                 /\ \A d \in 1..Len(frames.stack) :
                       /\ frames'.stack[d].inputs = frames.stack[d].inputs
                       /\ frames'.stack[d].outputs = frames.stack[d].outputs
                       /\ Len(frames'.stack[d].buffers) =
                              Len(frames.stack[d].buffers)
                       /\ \A b \in 1..Len(frames.stack[d].buffers) :
                             \A k \in 1..Len(frames.stack[d].buffers[b]) :
                                frames'.stack[d].buffers[b][k] =
                                    IF /\ d = res.out.depth
                                       /\ b = res.out.i + 1
                                       /\ start < k
                                       /\ k <= start + len
                                    THEN res.samples[k - start]
                                    ELSE frames.stack[d].buffers[b][k]]_vars

\* a window that starts after the first sample and ends before the last was
\* written through a nested handle, into a buffer of a parent frame
C25_Witness ==
    /\ frames.res.op = "write"
    /\ frames.res.out.is = "Some"
    /\ frames.res.start > 0
    /\ frames.res.start + frames.res.len < BlockLen
    /\ frames.res.out.depth < Len(frames.stack)
    /\ \E k \in 1..BlockLen :
          nest_buf(frames.stack, frames.res.out)[k] = written(frames.res.len)[1]

----------------------------------------------------------------------------
(* Properties of the allocator specification *)

\* the buffers with no live claim: only the allocator holds their handle
Unclaimed(ids) == { b \in 0..(Len(ids) - 1) : ids[b + 1] = 1 }

\* C26: find_free_buffer returns the lowest buffer that has no live claim,
\* so a buffer whose claims were all dropped is returned once no lower one
\* is free, or a new buffer whose id is the len() before the call when every
\* buffer has a claim; it never returns a buffer that has a live claim;
\* len() never decreases, and it is the number of distinct ids returned and
\* the num_buffers read from it.
C26_FindFreeBuffer ==
    [][/\ allocator'.calls = allocator.calls + 1
          => LET ids == allocator.ids
                 id == allocator'.id
             IN  /\ Unclaimed(ids) # {}
                    => /\ id \in Unclaimed(ids)
                       /\ \A b \in Unclaimed(ids) : id <= b
                       /\ allocator_len(allocator'.ids) = allocator_len(ids)
                 /\ Unclaimed(ids) = {}
                    => /\ id = allocator_len(ids)
                       /\ allocator_len(allocator'.ids) = allocator_len(ids) + 1
                 /\ id < allocator_len(ids) => ids[id + 1] = 1
                 /\ allocator'.ids[id + 1] = 1
       /\ allocator_len(allocator'.ids) >= allocator_len(allocator.ids)
       /\ allocator_len(allocator'.ids) = Cardinality(allocator'.returned)
       /\ allocator'.num_buffers # allocator.num_buffers
          => allocator'.num_buffers = Cardinality(allocator.returned)]_vars

\* find_free_buffer returned a buffer that it had returned before and whose
\* claims were all dropped since, while a higher buffer is still claimed
C26_Witness ==
    /\ allocator.reused
    /\ allocator.id = 0
    /\ allocator_len(allocator.ids) = MaxBufs
    /\ allocator.ids[MaxBufs] > 1

----------------------------------------------------------------------------
(* Properties of the buffers of the sums and of the nodes of a schedule *)

\* C27: the output buffer of a Sum task is not the buffer of an operand whose
\* delay is not zero, and when it is the buffer of an operand whose delay is
\* zero, every other task that reads the signal of that operand runs before
\* the Sum task.
C27_SumOutputBuffer ==
    schedule.compiled =>
        \A k \in TaskIdx :
            schedule.tasks[k].kind = "Sum" =>
                \A x \in 1..2 :
                    LET sum == SumOf(schedule.tasks[k].id)
                        operand == sum.summands[x]
                    IN  /\ source_delay(operand) # 0
                           => sum.output_buf # BufOfSource(operand)
                        /\ sum.output_buf = BufOfSource(operand)
                           => \A t \in Readers(SignalOf(operand)) : t <= k

\* a sum of a delayed operand and of an operand that is not delayed is
\* stored in the buffer of the second, and the signal of the delayed one has
\* no other reader
C27_Witness ==
    /\ schedule.compiled
    /\ \E k \in TaskIdx :
          /\ schedule.tasks[k].kind = "Sum"
          /\ \E x, y \in 1..2 :
                LET sum == SumOf(schedule.tasks[k].id)
                IN  /\ source_delay(sum.summands[x]) # 0
                    /\ Readers(SignalOf(sum.summands[x])) = {k}
                    /\ source_delay(sum.summands[y]) = 0
                    /\ sum.output_buf = BufOfSource(sum.summands[y])

\* the node whose iteration of the loop over `order` pushed task k: the node
\* of the last Node task at or before k
ScheduledAt(k) ==
    schedule.tasks[MaxOf({ q \in 1..k : schedule.tasks[q].kind = "Node" })].id

\* C28: for an input port fed by k >= 2 edges, the sums made for it are one
\* chain: the port's source is the last sum; the first sum has two Direct
\* summands; every later sum has the previous sum of the port as lhs; the
\* rhs of every sum is a Direct source, an output of the node that was being
\* scheduled when the sum was made; and each of the k edges is a Direct
\* summand exactly once.
C28_SumChain ==
    schedule.compiled =>
        \A vi \in FedPorts :
            Cardinality(EdgesInto(vi[1], vi[2])) >= 2 =>
                LET final == schedule.node_io[vi[1]].inputs[vi[2]]
                    chain == SumsOf(final)
                    first == MinOf(chain)
                    direct(x) == { y \in 1..2 :
                                     SumOf(x).summands[y].kind = "GraphNode" }
                IN  /\ final.kind = "SumNode"
                    /\ final.index = MaxOf(chain)
                    /\ direct(first) = {1, 2}
                    /\ \A x \in chain \ {first} :
                          SumOf(x).summands[1] =
                              SumNode(MaxOf({ z \in chain : z < x }))
                    /\ \A x \in chain :
                          /\ SumOf(x).summands[2].kind = "GraphNode"
                          /\ \A k \in SumPositions(x) :
                                SumOf(x).summands[2].node_id = ScheduledAt(k)
                    /\ { <<SumOf(x).summands[y].node_id,
                            SumOf(x).summands[y].port_id>> :
                              x \in chain, y \in 1..2 } \ {<<0, 0>>}
                          = { <<e[1], e[2]>> : e \in EdgesInto(vi[1], vi[2]) }
                    /\ Cardinality({ xy \in chain \X (1..2) : xy[2] \in direct(xy[1]) })
                          = Cardinality(EdgesInto(vi[1], vi[2]))

\* a port fed by four edges has a chain of three sums, made in the
\* iterations of two nodes
C28_Witness ==
    /\ schedule.compiled
    /\ \E vi \in FedPorts :
          /\ Cardinality(EdgesInto(vi[1], vi[2])) = 4
          /\ Cardinality(SumsOf(schedule.node_io[vi[1]].inputs[vi[2]])) = 3
          /\ Cardinality({ e[1] : e \in EdgesInto(vi[1], vi[2]) }) = 2

\* C29: for every scheduled node, the buffer of each of its used outputs
\* differs from the buffer that backs each of its connected inputs, whether
\* the source of the input is Direct or a Sum.
C29_NodeBuffers ==
    schedule.compiled =>
        \A k \in TaskIdx :
            schedule.tasks[k].kind = "Node" => Writes(k) \cap Reads(k) = {}

\* a node writes an output and is the only reader of a sum, whose buffer
\* comes before the buffer of the output: it is the one find_free_buffer
\* would return for the output if the claim of the input were released first
C29_Witness ==
    /\ schedule.compiled
    /\ \E k \in TaskIdx :
          /\ schedule.tasks[k].kind = "Node"
          /\ Writes(k) # {}
          /\ \E s \in Operands(k) :
                /\ s.kind = "SumNode"
                /\ Readers(SignalOf(s)) = {k}
                /\ \A b \in Writes(k) : BufOfSource(s) < b

----------------------------------------------------------------------------
(* Properties of the cloning specification *)

\* C30: every call of try_insert_edge_acyclic and of add_sink_node returns,
\* on every graph built through the public operations: neither is_connected
\* nor add_sink_node recurses without end.
C30_Terminates ==
    ret.op \in {"try_insert_edge_acyclic", "add_sink_node"}
        => ret.res # "Overflow"

----------------------------------------------------------------------------
(* Properties of the scheduler under other orders of its calls *)

\* the scheduler states that add_sink_node calls for the sinks of `todo`
\* leave, from the states `sts`, in every order of the calls and every
\* iteration order over the input ports and the connections
RECURSIVE SinkRuns(_, _)
SinkRuns(sts, todo) ==
    IF todo = {} THEN sts
    ELSE UNION { SinkRuns(UNION { add_sink_node(nodes, st, s) : st \in sts },
                          todo \ {s}) : s \in todo }

\* the nodes of an order
NodesOf(ord) == { ord[k] : k \in 1..Len(ord) }

\* C31: for a fixed graph and a fixed set of sinks, the scheduled nodes, the
\* max input latency of each and the used outputs of each are the same
\* whatever the order of the add_sink_node calls and the iteration order
\* over the input ports and the connections.
C31_SinkOrderIndependent ==
    \A st \in SinkRuns({[order |-> <<>>, intermediate |-> EmptyMap]}, sinks) :
        /\ st.intermediate = intermediate
        /\ NodesOf(st.order) = NodesOf(order)
        /\ Len(st.order) = Len(order)

\* two sinks, a producer whose output has two consumers, and another order
\* of the calls leaves another linear order
C31_Witness ==
    /\ Cardinality(sinks) >= 2
    /\ \E n \in DOMAIN intermediate :
          \E o \in DOMAIN intermediate[n].used_outputs :
              Cardinality(DOMAIN intermediate[n].used_outputs[o]) >= 2
    /\ \E st \in SinkRuns({[order |-> <<>>, intermediate |-> EmptyMap]}, sinks) :
          st.order # order

----------------------------------------------------------------------------
(* io.rs : Ports, NodeIO, AudioGraphIO *)

\* the slots of the StableVec of processors that the calls use
NumSlots == 2

\* the ports of a node and the ports on its opposite side
IoPorts == 1
IoOpposite == 2

\* at most this many edges are inserted
MaxIoEdges == 3

\* NodeIndex::Global and NodeIndex::Processor(i)
IoGlobal == [is_global |-> TRUE, i |-> 0]
IoProcessor(i) == [is_global |-> FALSE, i |-> i]

\* Port { index, node_index }
IoPort(index, node_index) == [index |-> index, node_index |-> node_index]

\* Ports::insert_port : the new map and whether the port is new
Ports_insert_port(ports, port) ==
    LET old == IF port.node_index \in DOMAIN ports THEN ports[port.node_index]
               ELSE {}
    IN  [ports |-> Put(ports, port.node_index, old \cup {port.index}),
         res   |-> port.index \notin old]

\* Ports::remove_port : a set of one index is removed with its node, whatever
\* the index asked for
Ports_remove_port(ports, port) ==
    IF port.node_index \in DOMAIN ports
    THEN LET port_idxs == ports[port.node_index]
         IN  IF Cardinality(port_idxs) = 1
             THEN [ports |-> Del(ports, port.node_index), res |-> TRUE]
             ELSE [ports |-> Put(ports, port.node_index, port_idxs \ {port.index}),
                   res   |-> port.index \in port_idxs]
    ELSE [ports |-> ports, res |-> FALSE]

\* Ports::remove_all_ports_to_node
remove_all_ports_to_node(ports, node_index) == Del(ports, node_index)

\* NodeIO::with_io_config
with_io_config(num_ports, num_opposite_ports) ==
    [ports |-> [k \in 1..num_ports |-> EmptyMap],
     num_opposite_ports |-> num_opposite_ports]

\* AudioGraphIO::with_global_io_config (the fields processors and global)
with_global_io_config(num_global_io_ports, num_opposite_global_io_ports) ==
    [processors |-> EmptyMap,
     global |-> with_io_config(num_opposite_global_io_ports, num_global_io_ports)]

\* AudioGraphIO::get_node(index).is_some()
has_node(g, index) == index.is_global \/ index.i \in DOMAIN g.processors

\* AudioGraphIO::get_node(index).unwrap()
get_node(g, index) == IF index.is_global THEN g.global ELSE g.processors[index.i]

\* the AudioGraphIO with the connections of the port `port` replaced
set_connections(g, port, ports) ==
    LET node == get_node(g, port.node_index)
        new  == [node EXCEPT !.ports[port.index + 1] = ports]
    IN  IF port.node_index.is_global THEN [g EXCEPT !.global = new]
        ELSE [g EXCEPT !.processors[port.node_index.i] = new]

\* insert_at_next_empty_slot : the first empty slot, or the slot after the last
next_empty_slot(processors) ==
    CHOOSE i \in 0..Cardinality(DOMAIN processors) :
        /\ i \notin DOMAIN processors
        /\ \A j \in 0..(i - 1) : j \in DOMAIN processors

\* AudioGraphIO::insert_processor
io_insert_processor(g, num_ports, num_opposite_ports) ==
    LET i == next_empty_slot(g.processors)
    IN  [g   |-> [g EXCEPT !.processors =
                      Put(g.processors, i, with_io_config(num_ports, num_opposite_ports))],
         res |-> i]

\* AudioGraphIO::remove_processor : the ports of the processors left forget
\* the node, the ports of `global` are not visited
io_remove_processor(g, index) ==
    IF index \in DOMAIN g.processors
    THEN LET rest == Del(g.processors, index)
             clean(node) ==
                 [node EXCEPT !.ports =
                     [k \in DOMAIN node.ports |->
                         remove_all_ports_to_node(node.ports[k], IoProcessor(index))]]
         IN  [g   |-> [processors |-> [i \in DOMAIN rest |-> clean(rest[i])],
                       global |-> g.global],
              res |-> TRUE]
    ELSE [g |-> g, res |-> FALSE]

\* the EdgeNotFound value that remove_edge and insert_edge build first
edge_not_found(g, from, to) ==
    [from_port |->
         IF ~has_node(g, from.node_index) THEN "None"
         ELSE IF from.index < Len(get_node(g, from.node_index).ports)
              THEN "Some(true)" ELSE "Some(false)",
     to_port |->
         IF ~has_node(g, to.node_index) THEN "None"
         ELSE IF to.index < get_node(g, to.node_index).num_opposite_ports
              THEN "Some(true)" ELSE "Some(false)"]

\* EdgeNotFound::is_not_error : both ports were found
is_not_error(error) == error.from_port = "Some(true)" /\ error.to_port = "Some(true)"

\* AudioGraphIO::remove_edge
io_remove_edge(g, from, to) ==
    IF is_not_error(edge_not_found(g, from, to))
    THEN LET r == Ports_remove_port(get_node(g, from.node_index).ports[from.index + 1], to)
         IN  [g   |-> set_connections(g, from, r.ports),
              res |-> IF r.res THEN "Ok(true)" ELSE "Ok(false)"]
    ELSE [g |-> g, res |-> "NotFound"]

\* AudioGraphIO::connected : the results and the visited sets it can end
\* with, over the iteration orders of the hash maps; "panic" is the unwrap of
\* self[from_node] on a node that is not there
RECURSIVE io_connected(_, _, _, _), any_ports(_, _, _, _, _), any_nodes(_, _, _, _)
io_connected(g, from_node, to_node, visited) ==
    IF from_node = to_node THEN {[res |-> "true", visited |-> visited]}
    ELSE IF from_node \in visited THEN {[res |-> "false", visited |-> visited]}
    ELSE IF ~has_node(g, from_node)
         THEN {[res |-> "panic", visited |-> visited \cup {from_node}]}
    ELSE any_ports(g, to_node, visited \cup {from_node},
                   get_node(g, from_node).ports, 1)

\* the outer `any` of connected, over the ports of a node from the k-th on
any_ports(g, to_node, visited, ports, k) ==
    IF k > Len(ports) THEN {[res |-> "false", visited |-> visited]}
    ELSE UNION { IF r.res = "false"
                 THEN any_ports(g, to_node, r.visited, ports, k + 1)
                 ELSE {r}
                 : r \in any_nodes(g, to_node, visited, DOMAIN ports[k]) }

\* the inner `any` of connected, over the nodes of one port still to visit
any_nodes(g, to_node, visited, todo) ==
    IF todo = {} THEN {[res |-> "false", visited |-> visited]}
    ELSE UNION { UNION { IF r.res = "false"
                         THEN any_nodes(g, to_node, r.visited, todo \ {n})
                         ELSE {r}
                         : r \in io_connected(g, n, to_node, visited) }
                 : n \in todo }

\* AudioGraphIO::insert_edge : the graphs and results it can end with
io_insert_edge(g, from, to) ==
    IF is_not_error(edge_not_found(g, from, to))
    THEN LET checks == IF ~(from.node_index.is_global \/ to.node_index.is_global)
                       THEN { r.res : r \in io_connected(g, to.node_index,
                                                         from.node_index, {}) }
                       ELSE {"false"}
             r == Ports_insert_port(
                      get_node(g, from.node_index).ports[from.index + 1], to)
         IN  { IF c = "true" THEN [g |-> g, res |-> "CycleFound"]
               ELSE IF c = "panic" THEN [g |-> g, res |-> "panic"]
               ELSE [g   |-> set_connections(g, from, r.ports),
                     res |-> IF r.res THEN "Ok(true)" ELSE "Ok(false)"]
               : c \in checks }
    ELSE {[g |-> g, res |-> "NotFound"]}

----------------------------------------------------------------------------
(* The specification of the AudioGraphIO: its calls in any order *)

\* no call yet
NoIoCall ==
    [op |-> "none", from |-> IoPort(0, IoGlobal), to |-> IoPort(0, IoGlobal),
     index |-> 0, res |-> "none"]

IoNodes == {IoGlobal} \cup { IoProcessor(i) : i \in 0..(NumSlots - 1) }
IoFroms == { IoPort(k, n) : k \in 0..IoPorts, n \in IoNodes }
IoTos == { IoPort(k, n) : k \in 0..(IoOpposite - 1), n \in IoNodes }

\* the edges of an AudioGraphIO, as pairs of a port and a port it lists
IoEdgesOf(node_index, node) ==
    { <<IoPort(k - 1, node_index), IoPort(j, m)>> :
        <<k, m, j>> \in { t \in (DOMAIN node.ports) \X IoNodes \X (0..IoOpposite) :
                            /\ t[2] \in DOMAIN node.ports[t[1]]
                            /\ t[3] \in node.ports[t[1]][t[2]] } }
IoEdges(g) ==
    IoEdgesOf(IoGlobal, g.global)
        \cup UNION { IoEdgesOf(IoProcessor(i), g.processors[i]) : i \in DOMAIN g.processors }

\* the AudioGraphIO `g` after a call
AfterCall(g, call) == [processors |-> g.processors, global |-> g.global, call |-> call]

InitIO ==
    /\ nodes = EmptyMap
    /\ ret = NoCall
    /\ sinks = {}
    /\ order = <<>>
    /\ intermediate = EmptyMap
    /\ schedule = NoSchedule
    /\ exec = NoExec
    /\ frames = NoFrames
    /\ allocator = NoAllocator
    /\ io = AfterCall(with_global_io_config(IoOpposite, IoPorts), NoIoCall)
    /\ voices = NoVoices
    /\ grid = NoGrid
    /\ dense = NoDense
    /\ ring = NoRing

IoUnchanged ==
    UNCHANGED <<nodes, ret, sinks, order, intermediate, schedule, exec, frames,
                allocator, voices, grid, dense, ring>>

IoInsertProcessor ==
    /\ Cardinality(DOMAIN io.processors) < NumSlots
    /\ \E num_opposite_ports \in 1..IoOpposite :
          LET r == io_insert_processor(io, IoPorts, num_opposite_ports)
          IN  io' = AfterCall(r.g, [NoIoCall EXCEPT !.op = "insert_processor",
                                                    !.index = r.res, !.res = "index"])
    /\ IoUnchanged

IoRemoveProcessor ==
    /\ \E index \in 0..(NumSlots - 1) :
          LET r == io_remove_processor(io, index)
          IN  io' = AfterCall(r.g, [NoIoCall EXCEPT !.op = "remove_processor",
                                                    !.index = index,
                                                    !.res = IF r.res THEN "true" ELSE "false"])
    /\ IoUnchanged

IoInsertEdge ==
    /\ Cardinality(IoEdges(io)) < MaxIoEdges
    /\ \E from \in IoFroms, to \in IoTos :
          \E r \in io_insert_edge(io, from, to) :
              io' = AfterCall(r.g, [NoIoCall EXCEPT !.op = "insert_edge", !.from = from,
                                                    !.to = to, !.res = r.res])
    /\ IoUnchanged

IoRemoveEdge ==
    /\ \E from \in IoFroms, to \in IoTos :
          LET r == io_remove_edge(io, from, to)
          IN  io' = AfterCall(r.g, [NoIoCall EXCEPT !.op = "remove_edge", !.from = from,
                                                    !.to = to, !.res = r.res])
    /\ IoUnchanged

NextIO ==
    \/ IoInsertProcessor
    \/ IoRemoveProcessor
    \/ IoInsertEdge
    \/ IoRemoveEdge

SpecIO == InitIO /\ [][NextIO]_vars

----------------------------------------------------------------------------
(* Properties of the AudioGraphIO *)

\* C32: remove_edge(from, to) with existing endpoints returns Ok(true) exactly
\* when the edge from -> to was present and removes that edge only; when the
\* edge is absent it returns Ok(false) and changes nothing, also when the
\* port holds exactly one other edge to the same node.
C32_RemoveEdge ==
    [][(io'.call.op = "remove_edge" /\ io'.call.res \in {"Ok(true)", "Ok(false)"})
          => LET edge == <<io'.call.from, io'.call.to>>
             IN  /\ (io'.call.res = "Ok(true)") <=> (edge \in IoEdges(io))
                 /\ IoEdges(io') = IoEdges(io) \ {edge}]_vars

\* the nodes that the ports of a node list
IoListed(node) == UNION { DOMAIN node.ports[k] : k \in DOMAIN node.ports }

\* C33: after remove_processor(i) returned true, no port of a node that is
\* left, a processor or the Global node, lists the node i.
C33_RemoveProcessor ==
    (io.call.op = "remove_processor" /\ io.call.res = "true")
        => /\ IoProcessor(io.call.index) \notin IoListed(io.global)
           /\ \A i \in DOMAIN io.processors :
                 IoProcessor(io.call.index) \notin IoListed(io.processors[i])

\* the processors that a path of edges between processors leads to from `seen`
RECURSIVE ProcessorsFrom(_, _)
ProcessorsFrom(g, seen) ==
    LET more == { n \in IoNodes :
                    /\ ~n.is_global
                    /\ n.i \in DOMAIN g.processors
                    /\ \E m \in seen : m.i \in DOMAIN g.processors
                                       /\ n \in IoListed(g.processors[m.i]) }
    IN  IF more \subseteq seen THEN seen ELSE ProcessorsFrom(g, seen \cup more)

\* C34: insert_edge between two processors returns CycleFound only when a
\* path of edges between processors leads from to.node back to from.node;
\* edges at the Global node never have an edge between processors rejected.
C34_CycleFound ==
    [][(/\ io'.call.op = "insert_edge"
        /\ io'.call.res = "CycleFound"
        /\ ~io'.call.from.node_index.is_global
        /\ ~io'.call.to.node_index.is_global)
          => io'.call.from.node_index
                 \in ProcessorsFrom(io, {io'.call.to.node_index})]_vars

----------------------------------------------------------------------------
(* voice.rs : StackVoiceManager *)

\* N, the lanes of a vector: N / 2 stereo voices in a cluster
VLanes == 4

\* set_max_polyphony is called with at most this many clusters
MaxClusters == 2

\* the notes and the velocities of the calls
MaxNote == 1
MaxVel == 1

\* at most this many notes wait in the three pending queues together
MaxQueued == 4

\* the note id of a gap of the voice table
Gap == 128

Lanes == 0..(VLanes - 1)

\* Simd::splat over the lanes of a cluster
vsplat(x) == [l \in Lanes |-> x]

\* the events, with the fields of all the variants; `before` is no field of
\* the program: it keeps, for a Move, the voice table that the move found
VoiceEvent(kind, cluster_idx, mask, velocity, note, from, to, before) ==
    [kind |-> kind, cluster_idx |-> cluster_idx, mask |-> mask,
     velocity |-> velocity, note |-> note, from |-> from, to |-> to,
     before |-> before]

\* StackVoiceManager after set_max_polyphony(max_num_clusters); `cap` is the
\* capacity of the voice table and of each of the three pending queues
set_max_polyphony(max_num_clusters) ==
    [voices             |-> <<>>,
     cap                |-> max_num_clusters * (VLanes \div 2),
     mask_cache         |-> [i \in 1..max_num_clusters |-> {}],
     note_cache         |-> [i \in 1..max_num_clusters |-> vsplat(Gap)],
     vel_cache          |-> [i \in 1..max_num_clusters |-> vsplat(0)],
     add_pending        |-> <<>>,
     deactivate_pending |-> <<>>,
     free_pending       |-> <<>>]

\* push_within_capacity_stable that pushes whatever the capacity
push_always(vec, cap, val) == [vec |-> Append(vec, val), res |-> Len(vec) < cap]

\* push_within_capacity_stable : the vector and whether the value was pushed
push_within_capacity_stable(vec, cap, val) ==
    IF Len(vec) < cap THEN [vec |-> Append(vec, val), res |-> TRUE]
    ELSE [vec |-> vec, res |-> FALSE]

\* note_on, note_off, note_free
note_on(vm, note, vel) ==
    [vm EXCEPT !.add_pending =
        push_within_capacity_stable(vm.add_pending, vm.cap, <<note, vel>>).vec]
note_off(vm, note, vel) ==
    [vm EXCEPT !.deactivate_pending =
        push_within_capacity_stable(vm.deactivate_pending, vm.cap, <<note, vel>>).vec]
note_free(vm, note) ==
    [vm EXCEPT !.free_pending =
        push_within_capacity_stable(vm.free_pending, vm.cap, note).vec]

\* voices.iter().position(|&note_id| note_id == note), -1 for None
position_of(table, note) ==
    IF \E k \in 1..Len(table) : table[k] = note
    THEN (CHOOSE k \in 1..Len(table) :
              table[k] = note /\ \A h \in 1..(k - 1) : table[h] # note) - 1
    ELSE -1

\* voices.iter().position(|&note_id| note_id > 127), -1 for None
position_of_gap(table) ==
    IF \E k \in 1..Len(table) : table[k] > 127
    THEN (CHOOSE k \in 1..Len(table) :
              table[k] > 127 /\ \A h \in 1..(k - 1) : table[h] <= 127) - 1
    ELSE -1

\* while self.voices.last().filter(|&&i| i > 127).is_some() { self.voices.pop(); }
RECURSIVE pop_gaps(_)
pop_gaps(table) ==
    IF Len(table) > 0 /\ table[Len(table)] > 127
    THEN pop_gaps(SubSeq(table, 1, Len(table) - 1))
    ELSE table

\* the cluster and the two lanes of the voice at the position i
cluster_of(i) == i \div (VLanes \div 2)
lanes_of(i) == {2 * (i % (VLanes \div 2)), 2 * (i % (VLanes \div 2)) + 1}

\* mask.set(j1, true); mask.set(j2, true) in the cluster of the position i
set_mask(vm, i) ==
    [vm EXCEPT !.mask_cache[cluster_of(i) + 1] = @ \cup lanes_of(i)]

\* vels[j1] = vel; vels[j2] = vel
set_vels(vm, i, vel) ==
    [vm EXCEPT !.vel_cache[cluster_of(i) + 1] =
        [l \in Lanes |-> IF l \in lanes_of(i) THEN vel ELSE @[l]]]

\* notes[j1] = note.into(); notes[j2] = note.into()
set_notes(vm, i, note) ==
    [vm EXCEPT !.note_cache[cluster_of(i) + 1] =
        [l \in Lanes |-> IF l \in lanes_of(i) THEN note ELSE @[l]]]

\* events.extend(...) : one event for every cluster whose mask has a lane, in
\* the order of the clusters from i on, and the caches it takes replaced
RECURSIVE extend_events(_, _, _)
extend_events(r, kind, i) ==
    IF i >= Len(r.vm.mask_cache) THEN r
    ELSE IF r.vm.mask_cache[i + 1] = {} THEN extend_events(r, kind, i + 1)
    ELSE LET vm == r.vm
             ev == VoiceEvent(kind, i, vm.mask_cache[i + 1],
                              IF kind = "Free" THEN vsplat(0) ELSE vm.vel_cache[i + 1],
                              IF kind = "Activate" THEN vm.note_cache[i + 1] ELSE vsplat(0),
                              <<0, 0>>, <<0, 0>>, <<>>)
             taken ==
                 [vm EXCEPT !.mask_cache[i + 1] = {},
                            !.vel_cache[i + 1] = IF kind = "Free" THEN @ ELSE vsplat(0),
                            !.note_cache[i + 1] = IF kind = "Activate" THEN vsplat(0) ELSE @]
         IN  extend_events([vm |-> taken, events |-> Append(r.events, ev)], kind, i + 1)

\* the voices scheduled to be deactivated, from the k-th of the queue on
RECURSIVE drain_deactivate(_, _)
drain_deactivate(vm, k) ==
    IF k > Len(vm.deactivate_pending) THEN [vm EXCEPT !.deactivate_pending = <<>>]
    ELSE LET note == vm.deactivate_pending[k][1]
             vel  == vm.deactivate_pending[k][2]
             i    == position_of(vm.voices, note)
         IN  IF i >= 0 THEN drain_deactivate(set_vels(set_mask(vm, i), i, vel), k + 1)
             ELSE drain_deactivate(vm, k + 1)

\* the voices scheduled to be freed, from the k-th of the queue on
RECURSIVE drain_free(_, _)
drain_free(vm, k) ==
    IF k > Len(vm.free_pending) THEN [vm EXCEPT !.free_pending = <<>>]
    ELSE LET note == vm.free_pending[k]
             i    == position_of(vm.voices, note)
         IN  IF i >= 0
             THEN drain_free(
                      set_mask([vm EXCEPT !.voices =
                                   pop_gaps([vm.voices EXCEPT ![i + 1] = Gap])], i),
                      k + 1)
             ELSE drain_free(vm, k + 1)

\* the voices scheduled to be activated, from the k-th of the queue on
RECURSIVE drain_add(_, _)
drain_add(vm, k) ==
    IF k > Len(vm.add_pending) THEN [vm EXCEPT !.add_pending = <<>>]
    ELSE LET note   == vm.add_pending[k][1]
             vel    == vm.add_pending[k][2]
             gap    == position_of_gap(vm.voices)
             pushed == push_within_capacity_stable(vm.voices, vm.cap, Gap)
             i      == IF gap >= 0 THEN gap
                       ELSE IF pushed.res THEN Len(vm.voices) ELSE -1
             grown  == IF gap >= 0 THEN vm.voices ELSE pushed.vec
         IN  IF i >= 0
             THEN drain_add(
                      set_notes(set_vels(set_mask(
                          [vm EXCEPT !.voices = [grown EXCEPT ![i + 1] = note]],
                          i), i, vel), i, note),
                      k + 1)
             ELSE drain_add(vm, k + 1)

\* the three first parts of flush_events
deactivate_first(r) == extend_events([r EXCEPT !.vm = drain_deactivate(r.vm, 1)], "Deactivate", 0)
then_free(r) == extend_events([r EXCEPT !.vm = drain_free(r.vm, 1)], "Free", 0)
then_activate(r) == extend_events([r EXCEPT !.vm = drain_add(r.vm, 1)], "Activate", 0)

\* the last part of flush_events : the last voices move into the gaps left
RECURSIVE consolidate(_, _)
consolidate(r, i) ==
    IF i >= Len(r.vm.voices) THEN r
    ELSE IF r.vm.voices[i + 1] > 127
    THEN LET len     == Len(r.vm.voices) - 1
             table   == r.vm.voices
             swapped == [table EXCEPT ![len + 1] = table[i + 1], ![i + 1] = table[len + 1]]
             v       == VLanes \div 2
             ev      == VoiceEvent("Move", 0, {}, vsplat(0), vsplat(0),
                                   <<len \div v, len % v>>, <<i \div v, i % v>>, table)
         IN  consolidate([vm     |-> [r.vm EXCEPT !.voices = pop_gaps(swapped)],
                          events |-> Append(r.events, ev)], i + 1)
    ELSE consolidate(r, i + 1)

\* flush_events with the voices to activate handled before the voices to free
flush_events_activate_first(vm, events) ==
    consolidate(then_free(then_activate(deactivate_first(
        [vm |-> vm, events |-> events]))), 0)

\* StackVoiceManager::flush_events : the manager and the events vector after it
flush_events(vm, events) ==
    consolidate(then_activate(then_free(deactivate_first(
        [vm |-> vm, events |-> events]))), 0)

----------------------------------------------------------------------------
(* standalone_processor.rs : StandaloneProcessor with a StackVoiceManager *)

\* a call of a method of the processor
ProcessorCall(call, cluster_idx) == [call |-> call, cluster_idx |-> cluster_idx]

\* the arm of the match of process for an event Free
free_arm(event) == <<ProcessorCall("free_voices", event.cluster_idx)>>

\* the arms of the match of process : the calls that an event leads to
apply_event(event) ==
    IF event.kind = "Activate"
    THEN <<ProcessorCall("reset", event.cluster_idx),
           ProcessorCall("set_voice_notes", event.cluster_idx)>>
    ELSE IF event.kind = "Deactivate"
    THEN <<ProcessorCall("deactivate_voices", event.cluster_idx)>>
    ELSE IF event.kind = "Move"
    THEN <<ProcessorCall("move_state", event.to[1])>>
    ELSE free_arm(event)

\* for event in self.events_buffer.drain(..), from the k-th event on
RECURSIVE apply_events(_, _)
apply_events(events, k) ==
    IF k > Len(events) THEN <<>>
    ELSE apply_event(events[k]) \o apply_events(events, k + 1)

\* VoiceManager::get_voice_mask : the lanes of the live voices of a cluster
get_voice_mask(vm, cluster_idx) ==
    UNION { lanes_of(k - 1) : k \in { h \in 1..Len(vm.voices) :
                                        /\ cluster_of(h - 1) = cluster_idx
                                        /\ vm.voices[h] <= 127 } }

\* the calls of processor.process, one for every cluster with a live lane,
\* from the cluster i on
RECURSIVE process_clusters(_, _, _)
process_clusters(vm, max_num_clusters, i) ==
    IF i >= max_num_clusters THEN <<>>
    ELSE (IF get_voice_mask(vm, i) # {} THEN <<ProcessorCall("process", i)>> ELSE <<>>)
             \o process_clusters(vm, max_num_clusters, i + 1)

\* StandaloneProcessor::process : the voice manager after it, the events that
\* flush_events left in the events buffer and the calls of the processor
standalone_process(vm, max_num_clusters) ==
    LET r == flush_events(vm, <<>>)
    IN  [vm      |-> r.vm,
         flushed |-> r.events,
         log     |-> apply_events(r.events, 1)
                         \o process_clusters(r.vm, max_num_clusters, 0)]

----------------------------------------------------------------------------
(* The specification of the voices: notes queued and flushed block by block *)

VNotes == 0..MaxNote
VVels == 1..MaxVel

\* the standalone processor with its voice manager after the call `op`, the
\* events that the call flushed and the calls of the processor that it made
VoiceState(vm, max_num_clusters, op, flushed, log) ==
    [vm |-> vm, max_num_clusters |-> max_num_clusters, op |-> op,
     flushed |-> flushed, log |-> log]

InitVoice ==
    /\ nodes = EmptyMap
    /\ ret = NoCall
    /\ sinks = {}
    /\ order = <<>>
    /\ intermediate = EmptyMap
    /\ schedule = NoSchedule
    /\ exec = NoExec
    /\ frames = NoFrames
    /\ allocator = NoAllocator
    /\ io = NoIO
    /\ voices = VoiceState(set_max_polyphony(0), 0, "default", <<>>, <<>>)
    /\ grid = NoGrid
    /\ dense = NoDense
    /\ ring = NoRing

VoiceUnchanged ==
    UNCHANGED <<nodes, ret, sinks, order, intermediate, schedule, exec, frames,
                allocator, io, grid, dense, ring>>

Queued(vm) == Len(vm.add_pending) + Len(vm.deactivate_pending) + Len(vm.free_pending)

\* StandaloneProcessor::initialize
Initialize ==
    /\ \E max_num_clusters \in 0..MaxClusters :
          voices' = VoiceState(set_max_polyphony(max_num_clusters), max_num_clusters,
                               "initialize", <<>>, <<>>)
    /\ VoiceUnchanged

NoteOn ==
    /\ Queued(voices.vm) < MaxQueued
    /\ \E note \in VNotes, vel \in VVels :
          voices' = VoiceState(note_on(voices.vm, note, vel), voices.max_num_clusters,
                               "note_on", <<>>, <<>>)
    /\ VoiceUnchanged

NoteOff ==
    /\ Queued(voices.vm) < MaxQueued
    /\ \E note \in VNotes, vel \in VVels :
          voices' = VoiceState(note_off(voices.vm, note, vel), voices.max_num_clusters,
                               "note_off", <<>>, <<>>)
    /\ VoiceUnchanged

NoteFree ==
    /\ Queued(voices.vm) < MaxQueued
    /\ \E note \in VNotes :
          voices' = VoiceState(note_free(voices.vm, note), voices.max_num_clusters,
                               "note_free", <<>>, <<>>)
    /\ VoiceUnchanged

ProcessBlock ==
    /\ LET r == standalone_process(voices.vm, voices.max_num_clusters)
       IN  voices' = VoiceState(r.vm, voices.max_num_clusters, "process", r.flushed, r.log)
    /\ VoiceUnchanged

NextVoice ==
    \/ Initialize
    \/ NoteOn
    \/ NoteOff
    \/ NoteFree
    \/ ProcessBlock

SpecVoice == InitVoice /\ [][NextVoice]_vars

----------------------------------------------------------------------------
(* Properties of the voices *)

\* the place of a kind of event in the order of a flush
KindRank(kind) ==
    IF kind = "Deactivate" THEN 1
    ELSE IF kind = "Free" THEN 2
    ELSE IF kind = "Activate" THEN 3
    ELSE 4

\* the events of a kind in a sequence of events
EventsOf(events, kind) == { k \in 1..Len(events) : events[k].kind = kind }

\* the calls of a method in a log
CallsOf(log, call) == { k \in 1..Len(log) : log[k].call = call }

TablePos(at) == at[1] * (VLanes \div 2) + at[2]

\* C36: when flush_events returns the voice table holds no gap, its length is
\* at most max_num_clusters * N / 2, and each Move names as `from` the
\* position of a live voice and as `to` a lower position that was a gap; a
\* note_on that finds the pending queue or the voice table full is dropped
\* without any other change.
C36_VoiceTable ==
    [][/\ voices'.op = "process"
          => /\ \A k \in 1..Len(voices'.vm.voices) : voices'.vm.voices[k] <= 127
             /\ Len(voices'.vm.voices) <= voices'.max_num_clusters * (VLanes \div 2)
             /\ \A k \in EventsOf(voices'.flushed, "Move") :
                   LET ev == voices'.flushed[k]
                   IN  /\ TablePos(ev.from) < Len(ev.before)
                       /\ ev.before[TablePos(ev.from) + 1] <= 127
                       /\ TablePos(ev.to) < TablePos(ev.from)
                       /\ ev.before[TablePos(ev.to) + 1] > 127
             /\ voices.vm.free_pending = <<>>
                   => LET room == voices.vm.cap - Len(voices.vm.voices)
                          adds == voices.vm.add_pending
                          kept == IF Len(adds) <= room THEN Len(adds) ELSE room
                      IN  voices'.vm.voices
                              = voices.vm.voices \o [k \in 1..kept |-> adds[k][1]]
       /\ (voices'.op = "note_on" /\ Len(voices.vm.add_pending) = voices.vm.cap)
          => voices'.vm = voices.vm]_vars

\* a flush that found the table full, freed two voices of the first cluster
\* and moved the two voices of the last cluster into the gaps
C36_Witness ==
    /\ voices.op = "process"
    /\ Cardinality(EventsOf(voices.flushed, "Move")) = 2
    /\ \E k \in EventsOf(voices.flushed, "Move") :
          Len(voices.flushed[k].before) = voices.vm.cap
    /\ Len(voices.vm.voices) = 2

----------------------------------------------------------------------------
(* voice_manager.rs : the VoiceManager with a grid of slots *)

\* VOICES_PER_VECTOR and NUM_VECTORS of the VoiceManager that is checked
GridV == 2
GridN == 128

\* the bits of enabled_vectors_bitmask: u128
MaskBits == 128

\* the notes of the calls, and the calls made from a first state
MaxGridNote == 1
MaxGridCalls == 3

\* VoiceManager::default ; a slot holds 0 for None and n + 1 for the note n,
\* enabled_vectors_bitmask is kept as the set of its bits that are set
grid_default ==
    [notes |-> [i \in 1..GridN |-> [j \in 1..GridV |-> 0]],
     num_active_voices |-> [i \in 1..GridN |-> 0],
     enabled_vectors_bitmask |-> {}]

\* the first slot, in the order of the two loops, that holds the value v;
\* <<-1, -1>> when no slot does
first_slot(m, v) ==
    IF \E i \in 1..GridN, j \in 1..GridV : m.notes[i][j] = v
    THEN LET before(a, b) == a[1] < b[1] \/ (a[1] = b[1] /\ a[2] <= b[2])
             found == { <<i, j>> \in (1..GridN) \X (1..GridV) : m.notes[i][j] = v }
             first == CHOOSE a \in found : \A b \in found : before(a, b)
         IN  <<first[1] - 1, first[2] - 1>>
    ELSE <<-1, -1>>

\* VoiceManager::add_voice : the manager after it and Some((i, j)) or None
grid_add_voice(m, n) ==
    LET at == first_slot(m, 0)
        i  == at[1]
        j  == at[2]
    IN  IF i >= 0
        THEN [m   |-> [notes |-> [m.notes EXCEPT ![i + 1][j + 1] = n + 1],
                       num_active_voices |-> [m.num_active_voices EXCEPT ![i + 1] = @ + 1],
                       enabled_vectors_bitmask |-> m.enabled_vectors_bitmask \cup {i}],
              some |-> TRUE, res |-> at]
        ELSE [m |-> m, some |-> FALSE, res |-> at]

\* VoiceManager::remove_voice : the manager after it and Some((i, j)) or None
grid_remove_voice(m, n) ==
    LET at == first_slot(m, n + 1)
        i  == at[1]
        j  == at[2]
    IN  IF i >= 0
        THEN LET active == m.num_active_voices[i + 1] - 1
             IN  [m   |-> [notes |-> [m.notes EXCEPT ![i + 1][j + 1] = 0],
                           num_active_voices |-> [m.num_active_voices EXCEPT ![i + 1] = active],
                           enabled_vectors_bitmask |->
                               IF active = 0 THEN m.enabled_vectors_bitmask \ {i}
                               ELSE m.enabled_vectors_bitmask],
                  some |-> TRUE, res |-> at]
        ELSE [m |-> m, some |-> FALSE, res |-> at]

\* VoiceManager::num_voices_in_cluster
num_voices_in_cluster(m, index) == m.num_active_voices[index + 1]

\* u128::trailing_zeros of a mask that is not 0
trailing_zeros(enabled) == CHOOSE b \in enabled : \A c \in enabled : b <= c

\* one call of the closure of active_clusters, from the values `it` of
\* `enabled` and `accumulator` and the items yielded so far; `end` tells
\* whether it returned None ("done") or `enabled >>= n` overflowed the shift,
\* which it does for n = 128
closure_call(it) ==
    IF it.end # "more" THEN it
    ELSE IF it.enabled = {} THEN [it EXCEPT !.end = "done"]
    ELSE LET n   == trailing_zeros(it.enabled) + 1
             acc == it.accumulator + n
         IN  IF n >= MaskBits
             THEN [it EXCEPT !.accumulator = acc, !.end = "overflow"]
             ELSE [enabled     |-> { b - n : b \in { c \in it.enabled : c >= n } },
                   accumulator |-> acc,
                   items       |-> Append(it.items, acc - 1),
                   end         |-> "more"]

\* the closure called until it returns None, four calls at a time
RECURSIVE drive(_)
drive(it) ==
    IF it.end # "more" THEN it
    ELSE drive(closure_call(closure_call(closure_call(closure_call(it)))))

\* VoiceManager::active_clusters : the items that the iterator yields and how
\* the iteration ends. Where the shift overflows, the debug build panics
\* before the item is yielded, and the release build shifts by n % 128 = 0,
\* yields the item and never ends, as `enabled` stays as it is
active_clusters(m) ==
    LET it == drive([enabled |-> m.enabled_vectors_bitmask, accumulator |-> 0,
                     items |-> <<>>, end |-> "more"])
    IN  IF it.end = "overflow"
        THEN {[items |-> it.items, end |-> "panic"],
              [items |-> Append(it.items, it.accumulator - 1), end |-> "endless"]}
        ELSE {[items |-> it.items, end |-> "done"]}

----------------------------------------------------------------------------
(* The specification of the grid of slots: add_voice and remove_voice *)

\* the manager after GridN * GridV add_voice(0) calls and `freed`
\* remove_voice(0) calls: the slots from `freed` on hold the note 0
GridDrained(freed) ==
    LET held(i, j) == (i - 1) * GridV + (j - 1) >= freed
    IN  [notes |-> [i \in 1..GridN |-> [j \in 1..GridV |-> IF held(i, j) THEN 1 ELSE 0]],
         num_active_voices |->
             [i \in 1..GridN |-> Cardinality({ j \in 1..GridV : held(i, j) })],
         enabled_vectors_bitmask |->
             { i - 1 : i \in { h \in 1..GridN : \E j \in 1..GridV : held(h, j) } }]

\* the manager after a call
GridState(m, op, n, some, res, calls) ==
    [m |-> m, op |-> op, n |-> n, some |-> some, res |-> res, calls |-> calls]

InitGrid ==
    /\ nodes = EmptyMap
    /\ ret = NoCall
    /\ sinks = {}
    /\ order = <<>>
    /\ intermediate = EmptyMap
    /\ schedule = NoSchedule
    /\ exec = NoExec
    /\ frames = NoFrames
    /\ allocator = NoAllocator
    /\ io = NoIO
    /\ voices = NoVoices
    /\ \E freed \in 0..(GridN * GridV) :
          grid = GridState(GridDrained(freed), "none", 0, FALSE, <<0, 0>>, 0)
    /\ dense = NoDense
    /\ ring = NoRing

GridUnchanged ==
    UNCHANGED <<nodes, ret, sinks, order, intermediate, schedule, exec, frames,
                allocator, io, voices, dense, ring>>

GridAddVoice ==
    /\ grid.calls < MaxGridCalls
    /\ \E n \in 0..MaxGridNote :
          LET r == grid_add_voice(grid.m, n)
          IN  grid' = GridState(r.m, "add_voice", n, r.some, r.res, grid.calls + 1)
    /\ GridUnchanged

GridRemoveVoice ==
    /\ grid.calls < MaxGridCalls
    /\ \E n \in 0..MaxGridNote :
          LET r == grid_remove_voice(grid.m, n)
          IN  grid' = GridState(r.m, "remove_voice", n, r.some, r.res, grid.calls + 1)
    /\ GridUnchanged

NextGrid ==
    \/ GridAddVoice
    \/ GridRemoveVoice

SpecGrid == InitGrid /\ [][NextGrid]_vars

----------------------------------------------------------------------------
(* Properties of the grid of slots *)

\* the occupied slots of a cluster
Occupied(m, i) == { j \in 1..GridV : m.notes[i + 1][j] # 0 }

\* a sequence of numbers in ascending order
IsAscending(items) == \A k \in 1..(Len(items) - 1) : items[k] < items[k + 1]

\* C37: after any sequence of add_voice and remove_voice calls,
\* num_voices_in_cluster(i) is the number of occupied slots of cluster i,
\* active_clusters yields exactly the clusters with a voice, in ascending
\* order, add_voice returns None and changes nothing exactly when every slot
\* is occupied, and remove_voice of a note that is not held returns None and
\* changes nothing.
C37_SlotGrid ==
    [][/\ \A i \in 0..(GridN - 1) :
             num_voices_in_cluster(grid'.m, i) = Cardinality(Occupied(grid'.m, i))
       /\ \A r \in active_clusters(grid'.m) :
             /\ r.end = "done"
             /\ IsAscending(r.items)
             /\ { r.items[k] : k \in 1..Len(r.items) }
                    = { i \in 0..(GridN - 1) : Occupied(grid'.m, i) # {} }
       /\ grid'.op = "add_voice"
             => /\ ~grid'.some <=> (\A i \in 0..(GridN - 1) : Occupied(grid.m, i) = 1..GridV)
                /\ ~grid'.some => grid'.m = grid.m
       /\ (/\ grid'.op = "remove_voice"
           /\ \A i \in 1..GridN, j \in 1..GridV : grid.m.notes[i][j] # grid'.n + 1)
             => (~grid'.some /\ grid'.m = grid.m)]_vars

----------------------------------------------------------------------------
(* processor/voice_manager.rs, processor/poly_processor.rs : the VoiceManager
   with a dense list of notes, and the PolyProcessor that owns it *)

\* MAX_VECTOR_WIDTH, the lanes of a vector: DenseWidth / 2 voices in a cluster
DenseWidth == 4

\* set_capacity_voices is called with at most this many voices
MaxDenseCap == 4

\* the notes of the calls
MaxDenseNote == 1

\* VoiceManager::default
dense_default == [notes |-> <<>>, cap |-> 0]

\* VoiceManager::index_to_pos
index_to_pos(i) == <<i \div (DenseWidth \div 2), i % (DenseWidth \div 2)>>

\* VoiceManager::num_active_voices
num_active_voices(m) == Len(m.notes)

\* VoiceManager::num_active_clusters
num_active_clusters(m) == num_active_voices(m) \div (DenseWidth \div 2)

\* VoiceManager::add_voice : the manager after it (the VoiceUpdateInfo is
\* left out, the calls of the processor that it leads to are not modelled)
dense_add_voice(m, midi_note) ==
    IF num_active_voices(m) < m.cap THEN [m EXCEPT !.notes = Append(@, midi_note)]
    ELSE m

\* Vec::swap_remove at the index `index`, counted from 0
swap_remove(vec, index) ==
    [k \in 1..(Len(vec) - 1) |-> IF k = index + 1 THEN vec[Len(vec)] ELSE vec[k]]

\* VoiceManager::remove_voice : the manager after it
dense_remove_voice(m, midi_note) ==
    IF \E k \in 1..Len(m.notes) : m.notes[k] = midi_note
    THEN [m EXCEPT !.notes = swap_remove(@, position_of(m.notes, midi_note))]
    ELSE m

\* VoiceManager::active_clusters : the items of the range 0..self.notes.len()
dense_active_clusters(m) == [k \in 1..Len(m.notes) |-> k - 1]

\* VoiceManager::set_capacity_voices
set_capacity_voices(m, num_voices) == [notes |-> <<>>, cap |-> num_voices]

\* PolyProcessor::process : the clusters that processor.process is called
\* with, in the order of the calls
poly_process(m) == dense_active_clusters(m)

----------------------------------------------------------------------------
(* The specification of the dense voice manager and its PolyProcessor *)

\* the manager after the call `op` and the clusters that the call processed
DenseState(m, op, ran) == [m |-> m, op |-> op, ran |-> ran]

InitDense ==
    /\ nodes = EmptyMap
    /\ ret = NoCall
    /\ sinks = {}
    /\ order = <<>>
    /\ intermediate = EmptyMap
    /\ schedule = NoSchedule
    /\ exec = NoExec
    /\ frames = NoFrames
    /\ allocator = NoAllocator
    /\ io = NoIO
    /\ voices = NoVoices
    /\ grid = NoGrid
    /\ dense = DenseState(dense_default, "default", <<>>)
    /\ ring = NoRing

DenseUnchanged ==
    UNCHANGED <<nodes, ret, sinks, order, intermediate, schedule, exec, frames,
                allocator, io, voices, grid, ring>>

SetCapacityVoices ==
    /\ \E num_voices \in 0..MaxDenseCap :
          dense' = DenseState(set_capacity_voices(dense.m, num_voices),
                              "set_capacity_voices", <<>>)
    /\ DenseUnchanged

DenseAddVoice ==
    /\ \E midi_note \in 0..MaxDenseNote :
          dense' = DenseState(dense_add_voice(dense.m, midi_note), "add_voice", <<>>)
    /\ DenseUnchanged

DenseRemoveVoice ==
    /\ \E midi_note \in 0..MaxDenseNote :
          dense' = DenseState(dense_remove_voice(dense.m, midi_note), "remove_voice", <<>>)
    /\ DenseUnchanged

PolyProcess ==
    /\ dense' = DenseState(dense.m, "process", poly_process(dense.m))
    /\ DenseUnchanged

NextDense ==
    \/ SetCapacityVoices
    \/ DenseAddVoice
    \/ DenseRemoveVoice
    \/ PolyProcess

SpecDense == InitDense /\ [][NextDense]_vars

----------------------------------------------------------------------------
(* Properties of the dense voice manager *)

\* the clusters that hold an active voice: the voice k is in the cluster
\* k / (lanes / 2)
ClustersWithVoice(m) == { (k - 1) \div (DenseWidth \div 2) : k \in 1..Len(m.notes) }

\* C38: active_clusters yields exactly the clusters that hold an active
\* voice, num_active_clusters is their count, and PolyProcessor::process
\* runs the processor once for each of them and for no other cluster.
C38_DenseClusters ==
    /\ { dense_active_clusters(dense.m)[k] : k \in 1..Len(dense_active_clusters(dense.m)) }
           = ClustersWithVoice(dense.m)
    /\ num_active_clusters(dense.m) = Cardinality(ClustersWithVoice(dense.m))
    /\ dense.op = "process"
          => /\ { dense.ran[k] : k \in 1..Len(dense.ran) } = ClustersWithVoice(dense.m)
             /\ Len(dense.ran) = Cardinality(ClustersWithVoice(dense.m))

----------------------------------------------------------------------------
(* delay_buffer.rs : FixedDelayBuffer *)

\* the delay lengths, the sample values, the block lengths and the samples
\* of a stream
MaxDelay == 3
MaxSample == 2
MaxRingBlock == 7
MaxStream == 9

\* FixedDelayBuffer::new ; T::default() is 0
delay_new(num_samples) == [buf |-> [k \in 1..num_samples |-> 0], current |-> 0]

\* FixedDelayBuffer::wrap_index
wrap_index(d) ==
    LET next == d.current + 1
    IN  [d EXCEPT !.current = next * (IF next # Len(d.buf) THEN 1 ELSE 0)]

\* FixedDelayBuffer::push_sample_ref : the buffer after it and the value left
\* in `sample`
push_sample_ref(d, sample) ==
    [d      |-> wrap_index([d EXCEPT !.buf[d.current + 1] = sample]),
     sample |-> d.buf[d.current + 1]]

\* FixedDelayBuffer::delay_maybe_naive : the buffer and the block after it
RECURSIVE delay_maybe_naive(_, _)
delay_maybe_naive(d, block) ==
    IF block = <<>> THEN [d |-> d, block |-> <<>>]
    ELSE LET r    == push_sample_ref(d, Head(block))
             rest == delay_maybe_naive(r.d, Tail(block))
         IN  [d |-> rest.d, block |-> <<r.sample>> \o rest.block]

\* swap_with_slice of ring[at .. at + len] and block[from .. from + len],
\* both counted from 0
swap_with_slice(ringbuf, at, block, from, len) ==
    [buf   |-> [k \in 1..Len(ringbuf) |->
                   IF k - 1 >= at /\ k - 1 < at + len THEN block[k - at + from]
                   ELSE ringbuf[k]],
     block |-> [k \in 1..Len(block) |->
                   IF k - 1 >= from /\ k - 1 < from + len THEN ringbuf[k - from + at]
                   ELSE block[k]]]

\* for chunk in iter.by_ref() : the whole ring swapped with every chunk of
\* delay_len samples of the block, from the position `from` of the block on
RECURSIVE swap_chunks(_, _, _)
swap_chunks(ringbuf, block, from) ==
    IF from + Len(ringbuf) > Len(block) THEN [buf |-> ringbuf, block |-> block, from |-> from]
    ELSE LET r == swap_with_slice(ringbuf, 0, block, from, Len(ringbuf))
         IN  swap_chunks(r.buf, r.block, from + Len(ringbuf))

\* delay_maybe_opt that takes the first branch for len = k as well
delay_maybe_opt_le(d, block) ==
    LET len       == Len(block)
        delay_len == Len(d.buf)
        k         == delay_len - d.current
    IN  IF len <= k
        THEN LET r == swap_with_slice(d.buf, d.current, block, 0, len)
             IN  [d |-> [buf |-> r.buf, current |-> d.current + len], block |-> r.block]
        ELSE LET first   == swap_with_slice(d.buf, d.current, block, 0, k)
                 chunks  == swap_chunks(first.buf, first.block, k)
                 rem_len == len - chunks.from
                 last    == swap_with_slice(chunks.buf, 0, chunks.block, chunks.from, rem_len)
             IN  [d |-> [buf |-> last.buf, current |-> rem_len], block |-> last.block]

\* FixedDelayBuffer::delay_maybe_opt : the buffer and the block after it
delay_maybe_opt(d, block) ==
    LET len       == Len(block)
        delay_len == Len(d.buf)
        k         == delay_len - d.current
    IN  IF len < k
        THEN LET r == swap_with_slice(d.buf, d.current, block, 0, len)
             IN  [d |-> [buf |-> r.buf, current |-> d.current + len], block |-> r.block]
        ELSE LET first   == swap_with_slice(d.buf, d.current, block, 0, k)
                 chunks  == swap_chunks(first.buf, first.block, k)
                 rem_len == len - chunks.from
                 last    == swap_with_slice(chunks.buf, 0, chunks.block, chunks.from, rem_len)
             IN  [d |-> [buf |-> last.buf, current |-> rem_len], block |-> last.block]

\* FixedDelayBuffer::delay
delay(d, block) == delay_maybe_opt(d, block)

----------------------------------------------------------------------------
(* The specification of the delay buffer: a stream delayed block by block *)

\* the blocks of a length
Blocks(len) == [1..len -> 1..MaxSample]

\* the delay buffer after the call `op` on `block`, with the samples that
\* went in and the samples that came out since it was made
RingState(d, op, block, ins, outs) ==
    [d |-> d, op |-> op, block |-> block, ins |-> ins, outs |-> outs]

InitRing ==
    /\ nodes = EmptyMap
    /\ ret = NoCall
    /\ sinks = {}
    /\ order = <<>>
    /\ intermediate = EmptyMap
    /\ schedule = NoSchedule
    /\ exec = NoExec
    /\ frames = NoFrames
    /\ allocator = NoAllocator
    /\ io = NoIO
    /\ voices = NoVoices
    /\ grid = NoGrid
    /\ dense = NoDense
    /\ \E num_samples \in 1..MaxDelay :
          ring = RingState(delay_new(num_samples), "new", <<>>, <<>>, <<>>)

RingUnchanged ==
    UNCHANGED <<nodes, ret, sinks, order, intermediate, schedule, exec, frames,
                allocator, io, voices, grid, dense>>

Delay ==
    /\ \E len \in 0..MaxRingBlock :
          /\ Len(ring.ins) + len <= MaxStream
          /\ \E block \in Blocks(len) :
                LET r == delay(ring.d, block)
                IN  ring' = RingState(r.d, "delay", block, ring.ins \o block, ring.outs \o r.block)
    /\ RingUnchanged

PushSampleRef ==
    /\ Len(ring.ins) < MaxStream
    /\ \E sample \in 1..MaxSample :
          LET r == push_sample_ref(ring.d, sample)
          IN  ring' = RingState(r.d, "push_sample_ref", <<sample>>,
                                Append(ring.ins, sample),
                                Append(ring.outs, r.sample))
    /\ RingUnchanged

NextRing ==
    \/ Delay
    \/ PushSampleRef

SpecRing == InitRing /\ [][NextRing]_vars

----------------------------------------------------------------------------
(* Properties of the delay buffer *)

\* C39: delay leaves the block and the ring as pushing the samples of the
\* block one at a time with push_sample_ref would; over successive blocks
\* each output sample is the input sample D positions earlier in the stream,
\* the default value for the first D, and `current` stays below D.
C39_DelayBlock ==
    [][ring'.op = "delay"
          => LET D     == Len(ring.d.buf)
                 naive == delay_maybe_naive(ring.d, ring'.block)
             IN  /\ ring'.d = naive.d
                 /\ ring'.outs = ring.outs \o naive.block
                 /\ Len(ring'.outs) = Len(ring'.ins)
                 /\ \A t \in 1..Len(ring'.outs) :
                       ring'.outs[t] = IF t <= D THEN 0 ELSE ring'.ins[t - D]
                 /\ ring'.d.current < D]_vars

\* a block more than twice as long as the delay, met with the index in the
\* middle of the ring (the samples before it do not fill the ring) and
\* ending where the ring wraps, whose last output samples are samples of the
\* same block
C39_Witness ==
    /\ ring.op = "delay"
    /\ Len(ring.d.buf) = MaxDelay
    /\ Len(ring.block) = 2 * MaxDelay + 1
    /\ Len(ring.ins) = MaxStream
    /\ ring.d.current = 0
    /\ ring.outs[MaxStream] = 2
    /\ ring.outs[MaxStream - 1] = 1

====
